---- MODULE Spec2Model ----
(***************************************************************************)
(* StandAloneServoSolution (Version 2): the mul_div primitive, the         *)
(* configuration validator apply_config, the console mutation commands,    *)
(* and the servo service loop with its debounced switch input.             *)
(***************************************************************************)
EXTENDS Integers, Naturals, Sequences, FiniteSets, TLC

VARIABLES
    md,             \* a call of mul_div: its arguments and its locals
    pc,             \* "setup" before setup() has run, "loop" afterwards
    eeprom,         \* the block held in the EEPROM
    configuration,  \* configuration.var.data.servo[ 0 .. AVAILABLE_SERVOS-1 ]
    assigned_pin,   \* assigned_pin[ 0 .. AVAILBLE_PINS-1 ]
    run_state,      \* run_state[ 0 .. AVAILABLE_SERVOS-1 ]
    pin_mode,       \* the mode pinMode() set on each pin
    pin_level,      \* the level digitalWrite() set on each pin
    console,        \* the messages the last operation printed on CONSOLE
    errors,         \* the value apply_config returned to setup()
    this_servo,     \* the slot the next pass of loop() services
    now,            \* the value millis() returned to the last pass of loop()
    led,            \* led_next and led_state
    history,        \* per slot, what its service passes have read and called
    last_pass,      \* the slot, reading and strategy call of the last pass
    motion          \* per slot, the steps of its move from OFF to ON

(***************************************************************************)
(* mul_div.h: template<class T> T mul_div( T a, T b, T c )                 *)
(* All arithmetic on T is modulo 2^W, W = bits_in_T.                       *)
(***************************************************************************)
RECURSIVE Pow2(_)
Pow2(n) == IF n = 0 THEN 1 ELSE 2 * Pow2(n - 1)

\* x <<= 1 on an unsigned value of W bits: the top bit is dropped.
ShiftLeft(x, W) == (x * 2) % Pow2(W)

\* ( x & top_bit_in_T ) != 0
TopBit(x, W) == x >= Pow2(W - 1)

\* The locals of mul_div before the first loop, i being the loop counter;
\* lost and n are history fields: whether a shift of st dropped a set bit,
\* and the number of iterations the roll-out loop made.
MulDivStart(b) == [st |-> 0, sb |-> 0, d |-> 0, e |-> 0, b |-> b, i |-> 0,
                   lost |-> FALSE, n |-> 0]

\* st <<= 1; if( sb & top_bit_in_T ) st |= 1; sb <<= 1;
ShiftSum(r, W) ==
    [r EXCEPT !.st = ShiftLeft(r.st, W) + (IF TopBit(r.sb, W) THEN 1 ELSE 0),
              !.sb = ShiftLeft(r.sb, W),
              !.lost = r.lost \/ TopBit(r.st, W)]

\* j = sb; sb += a; if( sb < j ) st++; with sum the new value of sb
Carry(r, sum, W) ==
    [r EXCEPT !.sb = sum,
              !.st = IF sum < r.sb THEN (r.st + 1) % Pow2(W) ELSE r.st]

\* if( b & top_bit_in_T ) { j = sb; sb += a; if( sb < j ) st++; }
AddPartial(r, a, W) ==
    IF TopBit(r.b, W) THEN Carry(r, (r.sb + a) % Pow2(W), W) ELSE r

\* d <<= 1; if( st >= c ) { d |= 1; st -= c; e++; } else { if( e ) e++; }
\* b <<= 1; and the step of the loop counter
Divide(s, c, W) ==
    IF s.st >= c
    THEN [s EXCEPT !.d = ShiftLeft(s.d, W) + 1, !.st = s.st - c, !.e = s.e + 1,
                   !.b = ShiftLeft(s.b, W), !.i = s.i + 1]
    ELSE [s EXCEPT !.d = ShiftLeft(s.d, W), !.e = IF s.e # 0 THEN s.e + 1 ELSE 0,
                   !.b = ShiftLeft(s.b, W), !.i = s.i + 1]

\* One pass of the first loop.
MainStep(r, a, c, W) == Divide(AddPartial(ShiftSum(r, W), a, W), c, W)

\* d <<= 1; if( st >= c ) { d |= 1; st -= c; } and the step of the loop
\* counter
DivideOn(s, c, W) ==
    IF s.st >= c
    THEN [s EXCEPT !.d = ShiftLeft(s.d, W) + 1, !.st = s.st - c, !.i = s.i + 1,
                   !.n = s.n + 1]
    ELSE [s EXCEPT !.d = ShiftLeft(s.d, W), !.i = s.i + 1, !.n = s.n + 1]

\* a pass of the roll-out loop that does not shift the product sum
RollStep_NoShift(r, c, W) == DivideOn(r, c, W)

\* One pass of the roll-out loop.
RollStep(r, c, W) == DivideOn(ShiftSum(r, W), c, W)

\* for( int i = 0; i < bits_in_T; i++ )
RECURSIVE MainLoop(_, _, _, _)
MainLoop(r, a, c, W) ==
    IF r.i < W THEN MainLoop(MainStep(r, a, c, W), a, c, W) ELSE r

\* for( int i = e; i < bits_in_T; i++ )
RECURSIVE RollLoop(_, _, _)
RollLoop(r, c, W) ==
    IF r.i < W THEN RollLoop(RollStep(r, c, W), c, W) ELSE r

\* the roll-out loop, entered with the locals m the first loop left
RollOut(m, c, W) == RollLoop([m EXCEPT !.i = m.e], c, W)

\* The locals of mul_div at its return statement.
MulDivRun(a, b, c, W) == RollOut(MainLoop(MulDivStart(b), a, c, W), c, W)

\* The value mul_div returns.
MulDiv(a, b, c, W) == MulDivRun(a, b, c, W).d

(***************************************************************************)
(* The sketch (Version 2), compiled for the Arduino Uno.                   *)
(***************************************************************************)
ERROR == -1

DEBOUNCE_TIME == 100

AVAILBLE_PINS == 22

AVAILABLE_SERVOS == 6

\* PIN_FUNC: FUNC_NONE = 0, FUNC_DIGITAL = 1, FUNC_PWM = 2 (a bit set).
FUNC_DIGITAL == 1

FUNC_PWM == 2

\* pin_table[ 0 .. 21 ] of the Uno, pin p at index p + 1.
pin_table == <<0, 0, 1, 3, 1, 3, 3, 1, 1, 3, 3, 3, 1, 0, 1, 1, 1, 1, 1, 1, 1, 1>>

\* ( pin_table[ p ] & f ) != 0
PinHas(p, f) == (pin_table[p + 1] \div f) % 2 = 1

Pins == 0 .. AVAILBLE_PINS - 1

Servos == 0 .. AVAILABLE_SERVOS - 1

PAUSE_MIN == 0

PAUSE_MAX == 1000

PAUSE_DEFAULT == 50

DECAY_MIN == 0

DECAY_MAX == 100

DECAY_DEFAULT == 50

FRICTION_MIN == 0

FRICTION_MAX == 100

FRICTION_DEFAULT == 50

SLACK_MIN == 0

SLACK_MAX == 100

SLACK_DEFAULT == 10

SLACK_DELAY == 250

STRETCH_MIN == 0

STRETCH_MAX == 100

STRETCH_DEFAULT == 10

SPEED_MIN == 0

SPEED_MAX == 100

SPEED_DEFAULT == 10

\* REALISM
NO_REALISM == 0

POINT_REALISM == 1

SIGNAL_REALISM == 2

\* ACCEL
LINEAR_ACCEL == 0

UPPER_ACCEL == 1

LOWER_ACCEL == 2

ARC_ACCEL == 3

\* Gravity.h: the number of arc units in one degree.
GRAVITY_SUB_STEPS == 4

ARC_GRANULARITY == 180 * GRAVITY_SUB_STEPS

\* unsigned int of the AVR target.
UIntBits == 16

ARC_TO_DEGREES(v) == MulDiv(v, 180, ARC_GRANULARITY, UIntBits)

DEGREES_TO_ARC(v) == MulDiv(v, ARC_GRANULARITY, 180, UIntBits)

(***************************************************************************)
(* SERVO_CONF.  The int flags active, inverted, toggle and feedback are    *)
(* held as booleans (the code only tests them for zero).  The union var    *)
(* is held as its six int cells: point.pause and signal.decay share cell   *)
(* 1, signal.friction is cell 2, signal.acc cell 3, signal.slack cell 4,   *)
(* signal.stretch cell 5 and signal.speed cell 6.                          *)
(***************************************************************************)
V_PAUSE == 1

V_DECAY == 1

V_FRICTION == 2

V_ACC == 3

V_SLACK == 4

V_STRETCH == 5

V_SPEED == 6

\* static storage before anything has been read into it
ZeroConf ==
    [active |-> FALSE, sweep |-> 0, inverted |-> FALSE, toggle |-> FALSE,
     feedback |-> FALSE, servo |-> 0, input |-> 0, output_off |-> 0,
     output_on |-> 0, mode |-> 0, var |-> <<0, 0, 0, 0, 0, 0>>]

reset_servo_KeepActive(c) ==
    [c EXCEPT !.sweep = 0, !.inverted = FALSE, !.toggle = FALSE,
              !.feedback = FALSE, !.mode = NO_REALISM]

reset_servo(c) ==
    [c EXCEPT !.active = FALSE, !.sweep = 0, !.inverted = FALSE,
              !.toggle = FALSE, !.feedback = FALSE, !.servo = ERROR,
              !.input = ERROR, !.output_off = ERROR, !.output_on = ERROR,
              !.mode = NO_REALISM]

reset_config(data) == [i \in Servos |-> reset_servo(data[i])]

(***************************************************************************)
(* RUN_TIME.  The four function pointers set_on, set_off, set_flip and     *)
(* run_state are always assigned together and are held as one tag,         *)
(* strategy; acc_table, acc_size and acc_scale likewise as the tag acc.    *)
(* driver is the Servo object: attached or not, and the last value given   *)
(* to driver.write().                                                      *)
(***************************************************************************)
SERVO_OFF == 0

SERVO_MOVING_ON == 1

SERVO_MOVING_OFF == 2

SERVO_ON == 3

ZeroRun ==
    [attached |-> FALSE, written |-> 0, strategy |-> NO_REALISM,
     acc |-> LINEAR_ACCEL, state |-> SERVO_OFF, next_event |-> 0,
     position |-> 0, speed |-> 0, index |-> 0, fsm_speed |-> 0,
     fsm_count |-> 0, fsm_dir |-> 0, fsm_target |-> 0, fsm_limit |-> 0,
     button_state |-> FALSE, button_count |-> 0, human_input |-> FALSE]

\* SET_RANGE without the test against the maximum
SET_RANGE_NoUpper(v, x, y) == IF v < x THEN x ELSE v

\* SET_RANGE(v,x,y) leaves this value in v.
SET_RANGE(v, x, y) ==
    LET z == IF v < x THEN x ELSE v
    IN  IF z > y THEN y ELSE z

(***************************************************************************)
(* apply_config.  The state it works on is the record                      *)
(*   [conf, ap (assigned_pin), rs (run_state), pm (pin modes),             *)
(*    pl (pin levels), r (the error count)].                               *)
(***************************************************************************)
\* the loop that clears the run time records
ClearRun(rs) ==
    [i \in Servos |->
        [rs[i] EXCEPT !.attached = FALSE, !.strategy = NO_REALISM,
                      !.acc = LINEAR_ACCEL, !.button_count = 0,
                      !.button_state = FALSE, !.human_input = FALSE,
                      !.state = SERVO_OFF, !.next_event = 0,
                      !.speed = SPEED_MIN, !.position = 0, !.index = 0]]

\* PinRejected without the test of assigned_pin
PinRejected_NoOwner(p, ap, f) ==
    (p < 0) \/ (p >= AVAILBLE_PINS) \/ ~PinHas(p, f)

\* one of the four tests of the first check
PinRejected(p, ap, f) ==
    (p < 0) \/ (p >= AVAILBLE_PINS) \/ (ap[p] # ERROR) \/ ~PinHas(p, f)

\* q after the first check of slot c
FirstCheck(c, ap) ==
    (IF PinRejected(c.input, ap, FUNC_DIGITAL) THEN 1 ELSE 0)
    + (IF PinRejected(c.servo, ap, FUNC_PWM) THEN 1 ELSE 0)
    + (IF c.feedback
       THEN (IF PinRejected(c.output_off, ap, FUNC_DIGITAL) THEN 1 ELSE 0)
            + (IF PinRejected(c.output_on, ap, FUNC_DIGITAL) THEN 1 ELSE 0)
       ELSE (IF c.output_off # ERROR \/ c.output_on # ERROR THEN 1 ELSE 0))

\* ClaimPin without the test that counts a pin already claimed
ClaimPin_NoCount(t, p, i) ==
    IF p = ERROR THEN t
    ELSE [ap |-> [t.ap EXCEPT ![p] = i], q |-> t.q]

\* if(( p = ... ) != ERROR ) { if( assigned_pin[ p ] != ERROR ) q++; assigned_pin[ p ] = i; }
ClaimPin(t, p, i) ==
    IF p = ERROR THEN t
    ELSE [ap |-> [t.ap EXCEPT ![p] = i],
          q |-> IF t.ap[p] # ERROR THEN t.q + 1 ELSE t.q]

\* the second check: the pins of slot i are claimed one by one
SecondCheck(c, ap, i) ==
    LET t1 == [ap |-> [ap EXCEPT ![c.input] = i], q |-> 0]
        t2 == ClaimPin(t1, c.servo, i)
        t3 == ClaimPin(t2, c.output_off, i)
    IN  ClaimPin(t3, c.output_on, i)

ReleasePin(ap, p) == IF p = ERROR THEN ap ELSE [ap EXCEPT ![p] = ERROR]

\* RollBack that leaves the input pin claimed
RollBack_KeepInput(c, ap) ==
    ReleasePin(ReleasePin([ap EXCEPT ![c.servo] = ERROR], c.output_off),
               c.output_on)

\* the roll back of the pin assignments of slot c
RollBack(c, ap) ==
    ReleasePin(ReleasePin([ap EXCEPT ![c.input] = ERROR, ![c.servo] = ERROR],
                          c.output_off), c.output_on)

\* pinMode( p, OUTPUT ); digitalWrite( p, v ) for a feedback pin, when set
FeedbackOut(st, p, high) ==
    IF p = ERROR THEN st
    ELSE [st EXCEPT !.pm[p] = "OUTPUT",
                    !.pl[p] = IF high THEN "HIGH" ELSE "LOW"]

\* switch( ptr->servo[ i ].mode ) with a default branch that counts nothing
ApplyMode_NoCount(st, i) ==
    LET c == st.conf[i]
    IN  CASE c.mode = NO_REALISM -> st
          [] c.mode = POINT_REALISM ->
                [st EXCEPT !.rs[i].strategy = POINT_REALISM,
                           !.conf[i].var[V_PAUSE] =
                               SET_RANGE(c.var[V_PAUSE], PAUSE_MIN, PAUSE_MAX)]
          [] c.mode = SIGNAL_REALISM ->
                [st EXCEPT !.rs[i].strategy = SIGNAL_REALISM,
                           !.conf[i].var =
                               <<SET_RANGE(c.var[V_DECAY], DECAY_MIN, DECAY_MAX),
                                 SET_RANGE(c.var[V_FRICTION], FRICTION_MIN, FRICTION_MAX),
                                 c.var[V_ACC],
                                 SET_RANGE(c.var[V_SLACK], SLACK_MIN, SLACK_MAX),
                                 SET_RANGE(c.var[V_STRETCH], STRETCH_MIN, STRETCH_MAX),
                                 SET_RANGE(c.var[V_SPEED], SPEED_MIN, SPEED_MAX)>>]
          [] OTHER -> [st EXCEPT !.conf[i].mode = NO_REALISM]

\* switch( ptr->servo[ i ].mode )
ApplyMode(st, i) ==
    LET c == st.conf[i]
    IN  CASE c.mode = NO_REALISM -> st
          [] c.mode = POINT_REALISM ->
                [st EXCEPT !.rs[i].strategy = POINT_REALISM,
                           !.conf[i].var[V_PAUSE] =
                               SET_RANGE(c.var[V_PAUSE], PAUSE_MIN, PAUSE_MAX)]
          [] c.mode = SIGNAL_REALISM ->
                [st EXCEPT !.rs[i].strategy = SIGNAL_REALISM,
                           !.conf[i].var =
                               <<SET_RANGE(c.var[V_DECAY], DECAY_MIN, DECAY_MAX),
                                 SET_RANGE(c.var[V_FRICTION], FRICTION_MIN, FRICTION_MAX),
                                 c.var[V_ACC],
                                 SET_RANGE(c.var[V_SLACK], SLACK_MIN, SLACK_MAX),
                                 SET_RANGE(c.var[V_STRETCH], STRETCH_MIN, STRETCH_MAX),
                                 SET_RANGE(c.var[V_SPEED], SPEED_MIN, SPEED_MAX)>>]
          [] OTHER -> [st EXCEPT !.conf[i].mode = NO_REALISM, !.r = st.r + 1]

\* switch( ptr->servo[ i ].var.signal.acc )
ApplyAcc(st, i) ==
    LET a == st.conf[i].var[V_ACC]
    IN  CASE a = LINEAR_ACCEL -> st
          [] a \in {UPPER_ACCEL, LOWER_ACCEL, ARC_ACCEL} ->
                [st EXCEPT !.rs[i].acc = a]
          [] OTHER -> [st EXCEPT !.conf[i].var[V_ACC] = LINEAR_ACCEL,
                                 !.r = st.r + 1]

\* the branch of apply_config that sets up an accepted slot
AcceptSlot(st, i, ap) ==
    LET c == st.conf[i]
        state == IF c.inverted THEN SERVO_ON ELSE SERVO_OFF
        s1 == [st EXCEPT !.ap = ap,
                         !.pm[c.input] = "INPUT_PULLUP",
                         !.rs[i].attached = TRUE,
                         !.rs[i].written = 0,
                         !.conf[i].sweep = SET_RANGE(c.sweep, 0, ARC_GRANULARITY),
                         !.rs[i].state = state]
        s2 == FeedbackOut(s1, c.output_off, state = SERVO_OFF)
        s3 == FeedbackOut(s2, c.output_on, state = SERVO_ON)
    IN  ApplyAcc(ApplyMode(s3, i), i)

\* the body of the loop over the servo slots
ApplySlot(st, i) ==
    LET c == st.conf[i]
    IN  IF ~c.active THEN st
        ELSE IF FirstCheck(c, st.ap) # 0
        THEN [st EXCEPT !.conf[i] = reset_servo(c), !.r = st.r + 1]
        ELSE LET t == SecondCheck(c, st.ap, i)
             IN  IF t.q # 0
                 THEN [st EXCEPT !.ap = RollBack(c, t.ap),
                                 !.conf[i] = reset_servo(c),
                                 !.r = st.r + 1]
                 ELSE AcceptSlot(st, i, t.ap)

RECURSIVE ApplyLoop(_, _)
ApplyLoop(st, i) ==
    IF i < AVAILABLE_SERVOS THEN ApplyLoop(ApplySlot(st, i), i + 1) ELSE st

apply_config(conf, rs, pm, pl) ==
    ApplyLoop([conf |-> conf, ap |-> [p \in Pins |-> ERROR],
               rs |-> ClearRun(rs), pm |-> pm, pl |-> pl, r |-> 0], 0)

(***************************************************************************)
(* The realism strategies.  They work on the record [r, pl, call]: the     *)
(* RUN_TIME entry of the servo, the pin levels, and (history) the name of  *)
(* the strategy function service_servo called.                             *)
(***************************************************************************)
\* Servo.h of the Arduino library
MIN_PULSE_WIDTH == 544

MAX_PULSE_WIDTH == 2400

\* conversion of an int to unsigned int
ToUInt(v) == v % Pow2(UIntBits)

\* conversion of an unsigned int to int
ToInt(v) == IF v >= Pow2(UIntBits - 1) THEN v - Pow2(UIntBits) ELSE v

ARC_TO_PULSE(v) ==
    ToUInt(MIN_PULSE_WIDTH
           + MulDiv(ToUInt(v), MAX_PULSE_WIDTH - MIN_PULSE_WIDTH,
                    ARC_GRANULARITY, UIntBits))

\* unsigned long arithmetic.  The 32 bits of the target are held as 30;
\* no time followed here comes near either.
ULongBits == 30

ULongAdd(a, b) == (a + b) % Pow2(ULongBits)

\* servo->driver.write( v )
DriverWrite(sv, v) == [sv EXCEPT !.r.written = v, !.writes = @ + 1]

\* if( conf->feedback ) digitalWrite( p, level )
FeedbackWrite(sv, c, p, level) ==
    IF c.feedback THEN [sv EXCEPT !.pl[p] = level, !.writes = @ + 1] ELSE sv

default_set_on(sv, c) ==
    LET s1 == DriverWrite([sv EXCEPT !.r.state = SERVO_ON],
                          ARC_TO_PULSE(IF c.inverted THEN 0 ELSE c.sweep))
    IN  FeedbackWrite(FeedbackWrite(s1, c, c.output_off, "LOW"),
                      c, c.output_on, "HIGH")

default_set_off(sv, c) ==
    LET s1 == DriverWrite([sv EXCEPT !.r.state = SERVO_OFF],
                          ARC_TO_PULSE(IF c.inverted THEN c.sweep ELSE 0))
    IN  FeedbackWrite(FeedbackWrite(s1, c, c.output_on, "LOW"),
                      c, c.output_off, "HIGH")

no_realism_on_Always(sv, c) == default_set_on(sv, c)

no_realism_on(sv, c) ==
    IF sv.r.state # SERVO_ON THEN default_set_on(sv, c) ELSE sv

no_realism_off(sv, c) ==
    IF sv.r.state # SERVO_OFF THEN default_set_off(sv, c) ELSE sv

no_realism_flip(sv, c) ==
    IF sv.r.state = SERVO_OFF THEN default_set_on(sv, c)
    ELSE default_set_off(sv, c)

no_realism_run(sv, c) == sv

start_point_on(t, sv, c) ==
    [FeedbackWrite(sv, c, c.output_off, "LOW") EXCEPT
        !.r.state = SERVO_MOVING_ON,
        !.r.next_event = ULongAdd(t, c.var[V_PAUSE])]

start_point_off(t, sv, c) ==
    [FeedbackWrite(sv, c, c.output_on, "LOW") EXCEPT
        !.r.state = SERVO_MOVING_OFF,
        !.r.next_event = ULongAdd(t, c.var[V_PAUSE])]

\* servo->driver.write( ARC_TO_PULSE( servo->position += d ))
PointStep(sv, d) ==
    DriverWrite([sv EXCEPT !.r.position = @ + d], ARC_TO_PULSE(sv.r.position + d))

\* PointMove that does not wait for next_event
PointMove_NoWait(t, sv, c, up, p, reached) ==
    LET moved ==
            IF up
            THEN IF sv.r.position < c.sweep THEN PointStep(sv, 1)
                 ELSE [FeedbackWrite(sv, c, p, "HIGH") EXCEPT !.r.state = reached]
            ELSE IF sv.r.position > 0 THEN PointStep(sv, -1)
                 ELSE [FeedbackWrite(sv, c, p, "HIGH") EXCEPT !.r.state = reached]
    IN  [moved EXCEPT !.r.next_event = ULongAdd(t, c.var[V_PAUSE])]

\* the body of continue_point_on and of continue_point_off: the servo
\* steps up (up) or down towards the end of its travel, and on reaching it
\* raises feedback pin p and takes the state reached
PointMove(t, sv, c, up, p, reached) ==
    IF t > sv.r.next_event
    THEN LET moved ==
                 IF up
                 THEN IF sv.r.position < c.sweep THEN PointStep(sv, 1)
                      ELSE [FeedbackWrite(sv, c, p, "HIGH") EXCEPT !.r.state = reached]
                 ELSE IF sv.r.position > 0 THEN PointStep(sv, -1)
                      ELSE [FeedbackWrite(sv, c, p, "HIGH") EXCEPT !.r.state = reached]
         IN  [moved EXCEPT !.r.next_event = ULongAdd(t, c.var[V_PAUSE])]
    ELSE sv

continue_point_on(t, sv, c) ==
    PointMove(t, sv, c, ~c.inverted, c.output_on, SERVO_ON)

continue_point_off(t, sv, c) ==
    PointMove(t, sv, c, c.inverted, c.output_off, SERVO_OFF)

point_realism_on(t, sv, c) ==
    CASE sv.r.state \in {SERVO_MOVING_OFF, SERVO_OFF} -> start_point_on(t, sv, c)
      [] sv.r.state = SERVO_MOVING_ON -> continue_point_on(t, sv, c)
      [] OTHER -> sv

point_realism_off(t, sv, c) ==
    CASE sv.r.state \in {SERVO_MOVING_ON, SERVO_ON} -> start_point_off(t, sv, c)
      [] sv.r.state = SERVO_MOVING_OFF -> continue_point_off(t, sv, c)
      [] OTHER -> sv

point_realism_flip(t, sv, c) ==
    IF sv.r.state \in {SERVO_OFF, SERVO_MOVING_OFF} THEN start_point_on(t, sv, c)
    ELSE start_point_off(t, sv, c)

point_realism_run(t, sv, c) ==
    CASE sv.r.state = SERVO_MOVING_ON -> continue_point_on(t, sv, c)
      [] sv.r.state = SERVO_MOVING_OFF -> continue_point_off(t, sv, c)
      [] OTHER -> sv

(***************************************************************************)
(* The gravity tables of Gravity.h, one for each ACCEL tag: the time gaps  *)
(* between the steps of a drop.                                            *)
(***************************************************************************)
acc_table(a) ==
    CASE a = UPPER_ACCEL -> <<60, 30, 15, 10>>
      [] a = LOWER_ACCEL -> <<30, 20, 10>>
      [] a = ARC_ACCEL -> <<80, 40, 20, 10, 8, 6>>
      [] OTHER -> <<40, 20, 12, 8, 6>>

acc_size(a) == Len(acc_table(a))

\* pgm_read_word( servo->acc_table + k ): past the table it reads word,
\* whatever the flash holds there
TableRead(a, k, word) ==
    IF k >= 0 /\ k < acc_size(a) THEN acc_table(a)[k + 1] ELSE word

SIGNAL_ON == 1

SIGNAL_OFF == 4

SIGNAL_N_ON == 7

SIGNAL_N_OFF == 8

SIGNAL_I_ON == 9

SIGNAL_I_OFF == 10

ReboundSpeed_Halved(r, c) == r.fsm_speed \div 2

\* state 5 of signal_fsm without the decay
ReboundSpeed_Kept(r, c) == r.fsm_speed

\* servo->fsm_speed = mul_div<unsigned int>( servo->fsm_speed, DECAY_MAX - conf->var.signal.decay, DECAY_MAX );
ReboundSpeed(r, c) ==
    ToInt(MulDiv(ToUInt(r.fsm_speed), ToUInt(DECAY_MAX - c.var[V_DECAY]),
                 DECAY_MAX, UIntBits))

\* case 3 of signal_fsm with a bounce limit that stays where it is
SignalBounce_KeepLimit(sv, c) ==
    LET r == sv.r
    IN  IF r.position = r.fsm_target
        THEN IF r.fsm_limit = r.position
             THEN [FeedbackWrite(sv, c, c.output_on, "HIGH") EXCEPT
                      !.r.state = SERVO_ON, !.r.index = 0]
             ELSE [sv EXCEPT !.r.fsm_dir = -r.fsm_dir,
                             !.r.position = r.position - r.fsm_dir]
        ELSE LET d == IF r.position = r.fsm_limit THEN -r.fsm_dir ELSE r.fsm_dir
             IN  [sv EXCEPT !.r.fsm_dir = d, !.r.position = r.position + d]

\* case 3 of signal_fsm, up to the write of the position
SignalBounce(sv, c) ==
    LET r == sv.r
    IN  IF r.position = r.fsm_target
        THEN IF r.fsm_limit = r.position
             THEN [FeedbackWrite(sv, c, c.output_on, "HIGH") EXCEPT
                      !.r.state = SERVO_ON, !.r.index = 0]
             ELSE IF r.fsm_limit + r.fsm_dir # r.fsm_target
                  THEN [sv EXCEPT !.r.fsm_limit = r.fsm_limit + r.fsm_dir,
                                  !.r.fsm_dir = -r.fsm_dir,
                                  !.r.position = r.position - r.fsm_dir]
                  ELSE [sv EXCEPT !.r.fsm_limit = r.fsm_limit + r.fsm_dir]
        ELSE LET d == IF r.position = r.fsm_limit THEN -r.fsm_dir ELSE r.fsm_dir
             IN  [sv EXCEPT !.r.fsm_dir = d, !.r.position = r.position + d]

signal_fsm(t, sv, c, word) ==
    LET r == sv.r
        k == r.index
    IN  IF t < r.next_event THEN sv
        ELSE CASE k = 0 -> sv
          [] k = 1 ->
                [FeedbackWrite(sv, c, c.output_off, "LOW") EXCEPT
                    !.r.state = SERVO_MOVING_ON,
                    !.r.fsm_speed = SPEED_MAX - c.var[V_SPEED],
                    !.r.next_event = ULongAdd(t, SLACK_DELAY),
                    !.r.index = 2]
          [] k = 2 ->
                LET s1 == IF r.position = r.fsm_target
                          THEN [sv EXCEPT !.r.fsm_speed = r.fsm_speed \div 2,
                                          !.r.index = 3]
                          ELSE DriverWrite(
                                  [sv EXCEPT !.r.position = r.position + r.fsm_dir],
                                  ARC_TO_PULSE(r.position + r.fsm_dir))
                IN  [s1 EXCEPT !.r.next_event = ULongAdd(t, s1.r.fsm_speed)]
          [] k = 3 ->
                LET s1 == SignalBounce(sv, c)
                IN  [DriverWrite(s1, ARC_TO_PULSE(s1.r.position)) EXCEPT
                        !.r.next_event = ULongAdd(t, s1.r.fsm_speed)]
          [] k = 4 ->
                LET pos == r.position + r.fsm_dir
                    gap == MulDiv(ToUInt(TableRead(r.acc, r.fsm_speed, word)),
                                  ToUInt(c.var[V_FRICTION]), FRICTION_MAX, UIntBits)
                    spd == IF r.fsm_speed + 1 >= acc_size(r.acc)
                           THEN acc_size(r.acc) - 1 ELSE r.fsm_speed + 1
                IN  [DriverWrite(sv, ARC_TO_PULSE(pos)) EXCEPT
                        !.r.position = pos,
                        !.r.next_event = ULongAdd(t, gap),
                        !.r.fsm_speed = spd,
                        !.r.index = IF pos = r.fsm_target THEN 5 ELSE 4]
          [] k = 5 ->
                LET spd == ReboundSpeed(r, c)
                IN  IF spd <= 1
                    THEN [FeedbackWrite(DriverWrite(sv, ARC_TO_PULSE(r.fsm_target)),
                                        c, c.output_off, "HIGH") EXCEPT
                             !.r.fsm_speed = spd,
                             !.r.position = r.fsm_target,
                             !.r.state = SERVO_OFF,
                             !.r.index = 0]
                    ELSE [sv EXCEPT !.r.fsm_speed = spd, !.r.index = 6]
          [] k = 6 ->
                LET pos == r.position - r.fsm_dir
                    s1 == DriverWrite([sv EXCEPT !.r.position = pos],
                                      ARC_TO_PULSE(pos))
                    gap == MulDiv(ToUInt(TableRead(r.acc, r.fsm_speed, word)),
                                  ToUInt(c.var[V_FRICTION]), FRICTION_MAX, UIntBits)
                IN  IF r.fsm_speed = 0
                    THEN [s1 EXCEPT !.r.index = 4]
                    ELSE [s1 EXCEPT !.r.next_event = ULongAdd(t, gap),
                                    !.r.fsm_speed = r.fsm_speed - 1]
          [] k = SIGNAL_N_ON ->
                LET s1 == [sv EXCEPT !.r.fsm_dir = 1,
                                     !.r.fsm_target = c.sweep,
                                     !.r.fsm_limit = c.sweep - c.var[V_STRETCH],
                                     !.r.index = SIGNAL_ON]
                IN  IF r.position < c.var[V_SLACK]
                    THEN DriverWrite([s1 EXCEPT !.r.position = c.var[V_SLACK]],
                                     ARC_TO_PULSE(c.var[V_SLACK]))
                    ELSE s1
          [] k = SIGNAL_N_OFF ->
                [FeedbackWrite(sv, c, c.output_on, "LOW") EXCEPT
                    !.r.fsm_dir = -1, !.r.fsm_target = 0, !.r.fsm_speed = 0,
                    !.r.index = SIGNAL_OFF]
          [] k = SIGNAL_I_ON ->
                LET q == c.sweep - c.var[V_SLACK]
                    s1 == [sv EXCEPT !.r.fsm_dir = -1,
                                     !.r.fsm_target = 0,
                                     !.r.fsm_limit = c.var[V_STRETCH],
                                     !.r.index = SIGNAL_ON]
                IN  IF r.position > q
                    THEN DriverWrite([s1 EXCEPT !.r.position = q], ARC_TO_PULSE(q))
                    ELSE s1
          [] k = SIGNAL_I_OFF ->
                [FeedbackWrite(sv, c, c.output_on, "LOW") EXCEPT
                    !.r.fsm_dir = 1, !.r.fsm_target = c.sweep, !.r.fsm_speed = 0,
                    !.r.index = SIGNAL_OFF]
          [] OTHER -> [sv EXCEPT !.r.index = 0]

\* servo->index = conf->inverted? SIGNAL_I_ON: SIGNAL_N_ON; servo->state = SERVO_MOVING_ON;
SignalStartOn(sv, c) ==
    [sv EXCEPT !.r.index = IF c.inverted THEN SIGNAL_I_ON ELSE SIGNAL_N_ON,
               !.r.state = SERVO_MOVING_ON]

SignalStartOff(sv, c) ==
    [sv EXCEPT !.r.index = IF c.inverted THEN SIGNAL_I_OFF ELSE SIGNAL_N_OFF,
               !.r.state = SERVO_MOVING_OFF]

signal_realism_on(t, sv, c, word) ==
    CASE sv.r.state \in {SERVO_MOVING_OFF, SERVO_OFF} -> SignalStartOn(sv, c)
      [] sv.r.state = SERVO_MOVING_ON -> signal_fsm(t, sv, c, word)
      [] OTHER -> sv

signal_realism_off(t, sv, c, word) ==
    CASE sv.r.state \in {SERVO_MOVING_ON, SERVO_ON} -> SignalStartOff(sv, c)
      [] sv.r.state = SERVO_MOVING_OFF -> signal_fsm(t, sv, c, word)
      [] OTHER -> sv

signal_realism_flip(sv, c) ==
    IF sv.r.state \in {SERVO_OFF, SERVO_MOVING_OFF} THEN SignalStartOn(sv, c)
    ELSE SignalStartOff(sv, c)

signal_realism_run(t, sv, c, word) ==
    IF sv.r.state \in {SERVO_MOVING_ON, SERVO_MOVING_OFF}
    THEN signal_fsm(t, sv, c, word) ELSE sv

(***************************************************************************)
(* service_servo                                                           *)
(***************************************************************************)
\* FUNC( servo->fn )( now, servo, conf ): the function the pointer fn of the
\* RUN_TIME entry is bound to
Strategy(fn, t, sv, c, word) ==
    LET k == sv.r.strategy
        done ==
            CASE fn = "set_on" ->
                    (CASE k = POINT_REALISM -> point_realism_on(t, sv, c)
                       [] k = SIGNAL_REALISM -> signal_realism_on(t, sv, c, word)
                       [] OTHER -> no_realism_on(sv, c))
              [] fn = "set_off" ->
                    (CASE k = POINT_REALISM -> point_realism_off(t, sv, c)
                       [] k = SIGNAL_REALISM -> signal_realism_off(t, sv, c, word)
                       [] OTHER -> no_realism_off(sv, c))
              [] fn = "set_flip" ->
                    (CASE k = POINT_REALISM -> point_realism_flip(t, sv, c)
                       [] k = SIGNAL_REALISM -> signal_realism_flip(sv, c)
                       [] OTHER -> no_realism_flip(sv, c))
              [] OTHER ->
                    (CASE k = POINT_REALISM -> point_realism_run(t, sv, c)
                       [] k = SIGNAL_REALISM -> signal_realism_run(t, sv, c, word)
                       [] OTHER -> no_realism_run(sv, c))
    IN  [done EXCEPT !.call = fn]

\* ReadSwitch with the switch taken as closed on a HIGH pin
ReadSwitch_ActiveHigh(level) == level = "HIGH"

\* enabled = ( digitalRead( conf->input ) == LOW )
ReadSwitch(level) == level = "LOW"

\* StartCountdown that keeps the count it finds
StartCountdown_KeepCount(r, enabled) == [r EXCEPT !.button_state = enabled]

\* servo->button_state = enabled; servo->button_count = DEBOUNCE_TIME;
StartCountdown(r, enabled) ==
    [r EXCEPT !.button_state = enabled, !.button_count = DEBOUNCE_TIME]

\* MomentaryRelease that leaves human_input set
MomentaryRelease_KeepLatch(t, sv, c, word) ==
    IF sv.r.human_input THEN Strategy("set_flip", t, sv, c, word)
    ELSE Strategy("run_state", t, sv, c, word)

\* a momentary switch confirmed disabled
MomentaryRelease(t, sv, c, word) ==
    IF sv.r.human_input
    THEN [Strategy("set_flip", t, sv, c, word) EXCEPT !.r.human_input = FALSE]
    ELSE Strategy("run_state", t, sv, c, word)

service_servo(t, sv, c, level, word) ==
    LET enabled == ReadSwitch(level)
    IN  IF ~c.active THEN sv
        ELSE IF enabled # sv.r.button_state
        THEN [sv EXCEPT !.r = StartCountdown(@, enabled)]
        ELSE IF sv.r.button_count # 0
        THEN [sv EXCEPT !.r.button_count = @ - 1]
        ELSE IF c.toggle
        THEN IF enabled THEN Strategy("set_on", t, sv, c, word)
             ELSE Strategy("set_off", t, sv, c, word)
        ELSE IF enabled THEN [sv EXCEPT !.r.human_input = TRUE]
        ELSE MomentaryRelease(t, sv, c, word)

(***************************************************************************)
(* History of the service passes of a slot.  level is the pin level the    *)
(* last pass read and streak the number of passes in a row that read it,   *)
(* StreakCap standing for that many or more; changed says that the pass    *)
(* before the first of them read the other level; requests is the number   *)
(* of set_on, set_off and set_flip calls made in those passes, 2 standing  *)
(* for 2 or more; armed says that the last level read on StreakCap passes  *)
(* in a row was LOW, the closed switch.  The state setup() and the switch  *)
(* commands leave, button_state disabled with a count of 0, is that of an  *)
(* open switch read for a long time.                                       *)
(***************************************************************************)
StreakCap == DEBOUNCE_TIME + 2

FreshHistory ==
    [level |-> "HIGH", streak |-> StreakCap, changed |-> FALSE, requests |-> 0,
     armed |-> FALSE]

NoPass == [servo |-> ERROR, level |-> "HIGH", call |-> "none", from |-> SERVO_OFF,
           to |-> SERVO_OFF,
           same |-> TRUE, writes |-> 0, latched |-> FALSE, armed |-> FALSE,
           ended |-> 0]

Requests == {"set_on", "set_off", "set_flip"}

\* the history of a slot after a pass that read level and made call
Passed(h, level, call) ==
    LET same == level = h.level
        streak == IF same
                  THEN (IF h.streak < StreakCap THEN h.streak + 1 ELSE StreakCap)
                  ELSE 1
        made == IF call \in Requests THEN 1 ELSE 0
    IN  [level |-> level,
         streak |-> streak,
         changed |-> IF same THEN h.changed ELSE TRUE,
         requests |-> IF same
                      THEN (IF h.requests + made > 2 THEN 2 ELSE h.requests + made)
                      ELSE 0,
         armed |-> IF streak = StreakCap THEN level = "LOW" ELSE h.armed]

(***************************************************************************)
(* History of a move to ON that began at rest in OFF at position 0: the    *)
(* number of passes that changed the position, the time of the last of     *)
(* them, whether each came at least the pause after the one before, and    *)
(* whether each raised the position by one.  A move that is turned back    *)
(* is forgotten.                                                           *)
(***************************************************************************)
NoMotion ==
    [tracking |-> FALSE, steps |-> 0, last |-> -1, spaced |-> TRUE, unit |-> TRUE,
     rebound |-> -1, cycles |-> 0, repeat |-> TRUE, due |-> FALSE, gap |-> -1]

\* the history of a move after a pass at time t took the record r to r2
Traced(m, r, r2, c, t) ==
    IF r.state = SERVO_OFF /\ r2.state = SERVO_MOVING_ON /\ r.position = 0
    THEN [NoMotion EXCEPT !.tracking = TRUE]
    ELSE IF ~m.tracking THEN m
    ELSE IF r2.state \notin {SERVO_MOVING_ON, SERVO_ON} THEN NoMotion
    ELSE IF r2.position # r.position
    THEN [m EXCEPT
            !.steps = m.steps + 1, !.last = t,
            !.spaced = m.spaced /\ (m.last = -1 \/ t - m.last >= c.var[V_PAUSE]),
            !.unit = m.unit /\ r2.position = r.position + 1]
    ELSE m

\* the history of the rebounds of a signal drop: the speed state 5 of
\* signal_fsm computed last, how many times it ran (up to 2), and whether
\* its last two results were the same
Rebounds(m, r, r2) ==
    IF r.strategy = SIGNAL_REALISM /\ r.index = 5 /\ r2.index # 5
    THEN [m EXCEPT !.rebound = r2.fsm_speed,
                   !.cycles = IF @ < 2 THEN @ + 1 ELSE 2,
                   !.repeat = (m.cycles = 0 \/ m.rebound = r2.fsm_speed)]
    ELSE m

\* whether the last pass that changed the record of the slot gave next_event
\* a new value, so that the handler now waits for a time it has set itself
Scheduled(m, r, r2) ==
    IF r2 = r THEN m ELSE [m EXCEPT !.due = r2.next_event # r.next_event]

\* the delay state 3 of signal_fsm scheduled when it last left the target
\* for a bounce at time t, or -1 before the first bounce of a rise
Bounced(m, r, r2, t) ==
    IF r.strategy # SIGNAL_REALISM THEN m
    ELSE IF r.index \in {SIGNAL_N_ON, SIGNAL_I_ON} /\ r2.index # r.index
    THEN [m EXCEPT !.gap = -1]
    ELSE IF /\ r.index = 3 /\ r.position = r.fsm_target
            /\ r2.index = 3 /\ r2.position # r.position
    THEN [m EXCEPT !.gap = (r2.next_event - t + Pow2(ULongBits)) % Pow2(ULongBits)]
    ELSE m

\* this_servo moved on without the return to slot 0
NextServo_NoReturn(i) == IF i + 1 = AVAILABLE_SERVOS THEN 1 ELSE i + 1

\* if(( this_servo += 1 ) == AVAILABLE_SERVOS ) this_servo = 0
NextServo(i) == IF i + 1 = AVAILABLE_SERVOS THEN 0 ELSE i + 1

LED_PIN == 13

LED_DELAY == 500

(***************************************************************************)
(* loop() with no console input waiting: millis() has returned t, the      *)
(* input pin of the serviced slot reads level, and a read past a gravity   *)
(* table would return word.                                                *)
(***************************************************************************)
Loop(t, level, word) ==
    /\ pc = "loop"
    /\ LET c == configuration[this_servo]
           r == run_state[this_servo]
           blink == t > led.next
           lit == IF blink THEN ~led.state ELSE led.state
       IN  \E sv \in {service_servo(t, [r |-> r, pl |-> pin_level,
                                        call |-> "none", writes |-> 0],
                                    c, level, word)} :
           /\ now' = t
           /\ run_state' = [run_state EXCEPT ![this_servo] = sv.r]
           /\ pin_level' = IF blink
                           THEN [sv.pl EXCEPT ![LED_PIN] = IF lit THEN "HIGH" ELSE "LOW"]
                           ELSE sv.pl
           /\ led' = IF blink THEN [next |-> ULongAdd(t, LED_DELAY), state |-> lit]
                     ELSE led
           /\ history' = IF c.active
                         THEN [history EXCEPT
                                 ![this_servo] = Passed(@, level, sv.call)]
                         ELSE history
           /\ last_pass' = IF c.active
                           THEN [servo |-> this_servo, level |-> level,
                                 call |-> sv.call,
                                 from |-> r.state,
                                 to |-> sv.r.state,
                                 same |-> sv.r = r,
                                 writes |-> IF sv.writes > 2 THEN 2 ELSE sv.writes,
                                 latched |-> sv.r.human_input /\ ~r.human_input,
                                 armed |-> history[this_servo].armed,
                                 ended |-> IF level = history[this_servo].level
                                           THEN 0 ELSE history[this_servo].streak]
                           ELSE [NoPass EXCEPT !.servo = this_servo]
           /\ motion' = [motion EXCEPT
                           ![this_servo] =
                               Bounced(Scheduled(Rebounds(Traced(@, r, sv.r, c, t),
                                                          r, sv.r), r, sv.r),
                                       r, sv.r, t)]
    /\ this_servo' = NextServo(this_servo)
    /\ UNCHANGED <<md, pc, eeprom, configuration, assigned_pin, pin_mode,
                   console, errors>>

(***************************************************************************)
(* The console commands.  Each works on the record                         *)
(*   [conf, ap (assigned_pin), rs (run_state), pm, pl, out]                *)
(* where out collects what display_progmem() printed.                      *)
(***************************************************************************)
Say(st, msg) == [st EXCEPT !.out = Append(st.out, msg)]

BadServo(s) == (s < 0) \/ (s >= AVAILABLE_SERVOS)

BadPin(p) == (p < 0) \/ (p >= AVAILBLE_PINS)

create_servo(st, s, p, i) ==
    IF BadServo(s) THEN Say(st, "Invalid servo number.")
    ELSE IF BadPin(p) THEN Say(st, "Invalid servo pin number.")
    ELSE IF BadPin(i) THEN Say(st, "Invalid input pin number.")
    ELSE IF p = i THEN Say(st, "Invalid duplicate pin numbers.")
    ELSE IF st.conf[s].active THEN Say(st, "Servo already defined.")
    ELSE IF st.ap[p] # ERROR \/ ~PinHas(p, FUNC_PWM)
    THEN Say(st, "Invalid servo pin.")
    ELSE IF st.ap[i] # ERROR \/ ~PinHas(i, FUNC_DIGITAL)
    THEN Say(st, "Invalid input pin.")
    ELSE Say([st EXCEPT
                !.conf[s] = [@ EXCEPT !.active = TRUE, !.sweep = 0,
                                      !.inverted = FALSE, !.servo = p,
                                      !.toggle = FALSE, !.input = i,
                                      !.feedback = FALSE,
                                      !.output_off = ERROR,
                                      !.output_on = ERROR,
                                      !.mode = NO_REALISM],
                !.rs[s] = [@ EXCEPT !.attached = TRUE, !.written = 0,
                                    !.acc = LINEAR_ACCEL,
                                    !.button_count = 0,
                                    !.button_state = FALSE,
                                    !.human_input = FALSE],
                !.ap = [@ EXCEPT ![p] = s, ![i] = s],
                !.pm[i] = "INPUT_PULLUP"], "Done.")

adjust_sweep(st, s, a) ==
    IF BadServo(s) THEN Say(st, "Invalid servo number.")
    ELSE IF (a < 0) \/ (a > 180) THEN Say(st, "Invalid sweep angle.")
    ELSE IF ~st.conf[s].active THEN Say(st, "Servo not defined.")
    ELSE Say([st EXCEPT !.conf[s].sweep = DEGREES_TO_ARC(a)], "Done.")

adjust_invert(st, s, i) ==
    IF BadServo(s) THEN Say(st, "Invalid servo number.")
    ELSE IF ~st.conf[s].active THEN Say(st, "Servo not defined.")
    ELSE Say([st EXCEPT !.conf[s].inverted = i], "Done.")

\* DeleteRelease that leaves the feedback pins claimed
DeleteRelease_KeepFeedback(ap, n) ==
    [ap EXCEPT ![n.servo] = ERROR, ![n.input] = ERROR]

\* the pin table after delete_servo has released the pins of slot n
DeleteRelease(ap, n) ==
    LET a1 == [ap EXCEPT ![n.servo] = ERROR]
        a2 == [a1 EXCEPT ![n.input] = ERROR]
    IN  IF n.feedback
        THEN [a2 EXCEPT ![n.output_off] = ERROR, ![n.output_on] = ERROR]
        ELSE a2

delete_servo(st, s, x) ==
    IF s # x THEN Say(st, "Miss-matched servo numbers.")
    ELSE IF BadServo(s) THEN Say(st, "Invalid servo number.")
    ELSE IF ~st.conf[s].active THEN Say(st, "Servo not defined.")
    ELSE Say([st EXCEPT
                !.conf[s] = [@ EXCEPT !.active = FALSE, !.sweep = 0,
                                      !.inverted = FALSE, !.servo = ERROR,
                                      !.toggle = FALSE, !.input = ERROR,
                                      !.feedback = FALSE,
                                      !.output_off = ERROR,
                                      !.output_on = ERROR,
                                      !.mode = NO_REALISM],
                !.rs[s].attached = FALSE,
                !.ap = DeleteRelease(@, st.conf[s])], "Done.")

\* toggle_switch and momentary_switch differ in the value given to toggle
SetSwitch(st, s, toggle) ==
    IF BadServo(s) THEN Say(st, "Invalid servo number.")
    ELSE IF ~st.conf[s].active THEN Say(st, "Servo not defined.")
    ELSE Say([st EXCEPT !.conf[s].toggle = toggle,
                        !.rs[s].button_count = 0,
                        !.rs[s].button_state = FALSE,
                        !.rs[s].human_input = FALSE], "Done.")

toggle_switch(st, s) == SetSwitch(st, s, TRUE)

momentary_switch(st, s) == SetSwitch(st, s, FALSE)

\* FeedbackPinsRefused without the test for a repeated pin
FeedbackPinsRefused_NoRepeat(st, a, b) ==
    IF BadPin(a) THEN "Invalid feedback pin number."
    ELSE IF BadPin(b) THEN "Invalid feedback pin number."
    ELSE IF st.ap[a] # ERROR \/ ~PinHas(a, FUNC_DIGITAL)
    THEN "Invalid feedback pin."
    ELSE IF st.ap[b] # ERROR \/ ~PinHas(b, FUNC_DIGITAL)
    THEN "Invalid feedback pin."
    ELSE ""

\* the tests assign_feedback makes of its two pins
FeedbackPinsRefused(st, a, b) ==
    IF BadPin(a) THEN "Invalid feedback pin number."
    ELSE IF BadPin(b) THEN "Invalid feedback pin number."
    ELSE IF st.ap[a] # ERROR \/ ~PinHas(a, FUNC_DIGITAL)
    THEN "Invalid feedback pin."
    ELSE IF st.ap[b] # ERROR \/ ~PinHas(b, FUNC_DIGITAL)
    THEN "Invalid feedback pin."
    ELSE IF a = b THEN "Invalid duplicate pin numbers."
    ELSE ""

assign_feedback(st, s, a, b) ==
    IF BadServo(s) THEN Say(st, "Invalid servo number.")
    ELSE IF FeedbackPinsRefused(st, a, b) # ""
    THEN Say(st, FeedbackPinsRefused(st, a, b))
    ELSE IF ~st.conf[s].active THEN Say(st, "Servo not defined.")
    ELSE IF st.conf[s].feedback THEN Say(st, "Feedback already defined.")
    ELSE Say([st EXCEPT !.conf[s].feedback = TRUE,
                        !.conf[s].output_off = a,
                        !.conf[s].output_on = b,
                        !.pm = [@ EXCEPT ![a] = "OUTPUT", ![b] = "OUTPUT"],
                        !.pl = [@ EXCEPT ![a] = "LOW", ![b] = "LOW"],
                        !.ap = [@ EXCEPT ![a] = s, ![b] = s]], "Done.")

\* quiet_feedback that leaves the two pin numbers in the slot
quiet_feedback_KeepPins(st, s) ==
    IF BadServo(s) THEN Say(st, "Invalid servo number.")
    ELSE IF ~st.conf[s].active THEN Say(st, "Servo not defined.")
    ELSE IF ~st.conf[s].feedback THEN Say(st, "Feedback not defined.")
    ELSE Say([st EXCEPT !.ap = [@ EXCEPT ![st.conf[s].output_off] = ERROR,
                                         ![st.conf[s].output_on] = ERROR],
                        !.conf[s].feedback = FALSE], "Done.")

quiet_feedback(st, s) ==
    IF BadServo(s) THEN Say(st, "Invalid servo number.")
    ELSE IF ~st.conf[s].active THEN Say(st, "Servo not defined.")
    ELSE IF ~st.conf[s].feedback THEN Say(st, "Feedback not defined.")
    ELSE Say([st EXCEPT !.ap = [@ EXCEPT ![st.conf[s].output_off] = ERROR,
                                         ![st.conf[s].output_on] = ERROR],
                        !.conf[s].feedback = FALSE,
                        !.conf[s].output_off = ERROR,
                        !.conf[s].output_on = ERROR], "Done.")

disable_realism(st, s) ==
    IF BadServo(s) THEN Say(st, "Invalid servo number.")
    ELSE IF ~st.conf[s].active THEN Say(st, "Servo not defined.")
    ELSE IF st.conf[s].mode = NO_REALISM THEN Say(st, "Realism not defined.")
    ELSE Say([st EXCEPT !.conf[s].mode = NO_REALISM,
                        !.rs[s].strategy = NO_REALISM], "Done.")

enable_point_realism(st, s) ==
    IF BadServo(s) THEN Say(st, "Invalid servo number.")
    ELSE IF ~st.conf[s].active THEN Say(st, "Servo not defined.")
    ELSE IF st.conf[s].mode = POINT_REALISM
    THEN Say(st, "Realism already defined.")
    ELSE Say([st EXCEPT !.conf[s].mode = POINT_REALISM,
                        !.conf[s].var[V_PAUSE] = PAUSE_DEFAULT,
                        !.rs[s].strategy = POINT_REALISM], "Done.")

enable_signal_realism(st, s) ==
    IF BadServo(s) THEN Say(st, "Invalid servo number.")
    ELSE IF ~st.conf[s].active THEN Say(st, "Servo not defined.")
    ELSE IF st.conf[s].mode = SIGNAL_REALISM
    THEN Say(st, "Realism already defined.")
    ELSE Say([st EXCEPT !.conf[s].mode = SIGNAL_REALISM,
                        !.conf[s].var = <<DECAY_DEFAULT, FRICTION_DEFAULT,
                                          LINEAR_ACCEL, SLACK_DEFAULT,
                                          STRETCH_DEFAULT, SPEED_DEFAULT>>,
                        !.rs[s].strategy = SIGNAL_REALISM,
                        !.rs[s].acc = LINEAR_ACCEL,
                        !.rs[s].index = 0], "Done.")

\* SetParameter that stores the value before it tests the range
SetParameter_StoreFirst(st, s, v, mode, cell, lo, hi) ==
    IF BadServo(s) THEN Say(st, "Invalid servo number.")
    ELSE IF ~st.conf[s].active THEN Say(st, "Servo not defined.")
    ELSE IF st.conf[s].mode # mode
    THEN Say(st, "Not supported by defined realism mode.")
    ELSE IF (v < lo) \/ (v > hi)
    THEN Say([st EXCEPT !.conf[s].var[cell] = v], "Invalid pause interval.")
    ELSE Say([st EXCEPT !.conf[s].var[cell] = v], "Done.")

\* set_point_pause, set_signal_decay, set_signal_friction, set_signal_slack,
\* set_signal_stretch and set_signal_speed: the same tests on their own
\* mode, cell and range (all six print the pause message)
SetParameter(st, s, v, mode, cell, lo, hi) ==
    IF BadServo(s) THEN Say(st, "Invalid servo number.")
    ELSE IF ~st.conf[s].active THEN Say(st, "Servo not defined.")
    ELSE IF st.conf[s].mode # mode
    THEN Say(st, "Not supported by defined realism mode.")
    ELSE IF (v < lo) \/ (v > hi) THEN Say(st, "Invalid pause interval.")
    ELSE Say([st EXCEPT !.conf[s].var[cell] = v], "Done.")

set_point_pause(st, s, v) ==
    SetParameter(st, s, v, POINT_REALISM, V_PAUSE, PAUSE_MIN, PAUSE_MAX)

set_signal_decay(st, s, v) ==
    SetParameter(st, s, v, SIGNAL_REALISM, V_DECAY, DECAY_MIN, DECAY_MAX)

set_signal_friction(st, s, v) ==
    SetParameter(st, s, v, SIGNAL_REALISM, V_FRICTION, FRICTION_MIN, FRICTION_MAX)

set_signal_slack(st, s, v) ==
    SetParameter(st, s, v, SIGNAL_REALISM, V_SLACK, SLACK_MIN, SLACK_MAX)

set_signal_stretch(st, s, v) ==
    SetParameter(st, s, v, SIGNAL_REALISM, V_STRETCH, STRETCH_MIN, STRETCH_MAX)

set_signal_speed(st, s, v) ==
    SetParameter(st, s, v, SIGNAL_REALISM, V_SPEED, SPEED_MIN, SPEED_MAX)

set_signal_gravity(st, s, g) ==
    IF BadServo(s) THEN Say(st, "Invalid servo number.")
    ELSE IF ~st.conf[s].active THEN Say(st, "Servo not defined.")
    ELSE IF st.conf[s].mode # SIGNAL_REALISM
    THEN Say(st, "Not supported by defined realism mode.")
    ELSE IF (g < 0) \/ (g > 3) THEN Say(st, "Invalid gravity mode.")
    ELSE LET a == CASE g = 1 -> UPPER_ACCEL
                    [] g = 2 -> LOWER_ACCEL
                    [] g = 3 -> ARC_ACCEL
                    [] OTHER -> LINEAR_ACCEL
         IN  Say([st EXCEPT !.conf[s].var[V_ACC] = a, !.rs[s].acc = a], "Done.")

\* the state a command works on
Machine ==
    [conf |-> configuration, ap |-> assigned_pin, rs |-> run_state,
     pm |-> pin_mode, pl |-> pin_level, out |-> <<>>]

\* process_command has called a handler, which left res
Command(res) ==
    /\ pc = "loop"
    /\ \E st \in {res} :
          /\ configuration' = st.conf
          /\ assigned_pin' = st.ap
          /\ run_state' = st.rs
          /\ pin_mode' = st.pm
          /\ pin_level' = st.pl
          /\ console' = st.out
          /\ history' = [s \in Servos |->
                            IF /\ st.rs[s].button_state = run_state[s].button_state
                               /\ st.rs[s].button_count = run_state[s].button_count
                               /\ st.rs[s].human_input = run_state[s].human_input
                            THEN history[s] ELSE FreshHistory]
          /\ motion' = [s \in Servos |->
                           IF st.rs[s] = run_state[s] /\ st.conf[s] = configuration[s]
                           THEN motion[s] ELSE NoMotion]
    /\ UNCHANGED <<md, pc, eeprom, errors, this_servo, now, led, last_pass>>

CreateServo(s, p, i) == Command(create_servo(Machine, s, p, i))

AdjustSweep(s, a) == Command(adjust_sweep(Machine, s, a))

AdjustInvert(s, i) == Command(adjust_invert(Machine, s, i))

DeleteServo(s, x) == Command(delete_servo(Machine, s, x))

ToggleSwitch(s) == Command(toggle_switch(Machine, s))

MomentarySwitch(s) == Command(momentary_switch(Machine, s))

AssignFeedback(s, a, b) == Command(assign_feedback(Machine, s, a, b))

QuietFeedback(s) == Command(quiet_feedback(Machine, s))

DisableRealism(s) == Command(disable_realism(Machine, s))

EnablePointRealism(s) == Command(enable_point_realism(Machine, s))

EnableSignalRealism(s) == Command(enable_signal_realism(Machine, s))

SetPointPause(s, v) == Command(set_point_pause(Machine, s, v))

SetSignalDecay(s, v) == Command(set_signal_decay(Machine, s, v))

SetSignalFriction(s, v) == Command(set_signal_friction(Machine, s, v))

SetSignalSlack(s, v) == Command(set_signal_slack(Machine, s, v))

SetSignalStretch(s, v) == Command(set_signal_stretch(Machine, s, v))

SetSignalSpeed(s, v) == Command(set_signal_speed(Machine, s, v))

SetSignalGravity(s, g) == Command(set_signal_gravity(Machine, s, g))

(***************************************************************************)
(* setup(): the block is read from the EEPROM, reset when it cannot be     *)
(* read or its checksum is wrong, and applied.                             *)
(***************************************************************************)
Setup ==
    /\ pc = "setup"
    /\ LET data == IF eeprom.readable /\ eeprom.valid
                   THEN eeprom.data
                   ELSE reset_config(IF eeprom.readable THEN eeprom.data
                                     ELSE configuration)
           st == apply_config(data, run_state, pin_mode, pin_level)
       IN  /\ configuration' = st.conf
           /\ assigned_pin' = st.ap
           /\ run_state' = st.rs
           /\ pin_mode' = [st.pm EXCEPT ![LED_PIN] = "OUTPUT"]
           /\ pin_level' = st.pl
           /\ errors' = st.r
           /\ console' = <<"Arduino Servo Driver.">>
                         \o (IF eeprom.readable
                          THEN IF eeprom.valid THEN <<>>
                               ELSE <<"EEPROM data invalid.">>
                          ELSE <<"EEPROM read fails.">>)
                         \o (IF st.r > 0
                             THEN <<"configuration error(s) detected.">>
                             ELSE <<>>)
    /\ pc' = "loop"
    /\ UNCHANGED <<md, eeprom, this_servo, now, led, history, last_pass, motion>>

(***************************************************************************)
(* The state before setup(): static storage is zero.                       *)
(***************************************************************************)
PowerOn(block) ==
    /\ pc = "setup"
    /\ eeprom = block
    /\ configuration = [i \in Servos |-> ZeroConf]
    /\ assigned_pin = [p \in Pins |-> 0]
    /\ run_state = [i \in Servos |-> ZeroRun]
    /\ pin_mode = [p \in Pins |-> "INPUT"]
    /\ pin_level = [p \in Pins |-> "LOW"]
    /\ console = <<>>
    /\ errors = 0
    /\ this_servo = 0
    /\ now = 0
    /\ led = [next |-> 0, state |-> FALSE]
    /\ history = [i \in Servos |-> FreshHistory]
    /\ last_pass = NoPass
    /\ motion = [i \in Servos |-> NoMotion]

EmptySlot == reset_servo(ZeroConf)

NoCall == [pc |-> "none", w |-> 0, a |-> 0, b |-> 0, c |-> 0, loc |-> MulDivStart(0)]

vars == <<md, pc, eeprom, configuration, assigned_pin, run_state, pin_mode,
          pin_level, console, errors, this_servo, now, led, history, last_pass,
          motion>>

progVars == <<pc, eeprom, configuration, assigned_pin, run_state, pin_mode,
              pin_level, console, errors, this_servo, now, led, history,
              last_pass, motion>>

(***************************************************************************)
(* Calls of mul_div on inputs of a small width (all of them) and of 8 bits *)
(* (values at and near 0, the top bit and the maximum).                    *)
(***************************************************************************)
MulDivBits == 4

EdgeValues == {0, 1, 2, 3, 127, 128, 129, 254, 255}

MulDivInputs ==
    [w : {MulDivBits}, a : 0 .. Pow2(MulDivBits) - 1, b : 0 .. Pow2(MulDivBits) - 1,
     c : 1 .. Pow2(MulDivBits) - 1]
    \cup [w : {8}, a : EdgeValues, b : EdgeValues, c : EdgeValues \ {0}]

MulDivInit ==
    /\ \E i \in MulDivInputs :
          md = [pc |-> "call", w |-> i.w, a |-> i.a, b |-> i.b, c |-> i.c,
                loc |-> MulDivStart(i.b)]
    /\ PowerOn([readable |-> FALSE, valid |-> FALSE,
                data |-> [i \in Servos |-> ZeroConf]])

MulDivCall ==
    /\ md.pc = "call"
    /\ md' = [md EXCEPT !.pc = "return",
                        !.loc = MulDivRun(md.a, md.b, md.c, md.w)]
    /\ UNCHANGED progVars

MulDivSpec == MulDivInit /\ [][MulDivCall]_vars

(***************************************************************************)
(* setup() on a block read from the EEPROM.  Slots 0 and 1 hold what was   *)
(* stored, the other slots are empty.                                      *)
(***************************************************************************)
\* sweep, flags, mode and parameters of a stored slot
StoredSettings ==
    { [sweep |-> 0, inverted |-> FALSE, toggle |-> FALSE, mode |-> NO_REALISM,
       var |-> <<0, 0, 0, 0, 0, 0>>],
      [sweep |-> 360, inverted |-> TRUE, toggle |-> TRUE, mode |-> SIGNAL_REALISM,
       var |-> <<50, 50, 1, 10, 10, 10>>],
      [sweep |-> 1000, inverted |-> FALSE, toggle |-> TRUE, mode |-> POINT_REALISM,
       var |-> <<2000, 0, 0, 0, 0, 0>>],
      [sweep |-> 90, inverted |-> FALSE, toggle |-> FALSE, mode |-> 3,
       var |-> <<0, 0, 7, 0, 0, 0>>] }

StoredSlot(active, set, servo, input, feedback, off, on) ==
    [active |-> active, sweep |-> set.sweep, inverted |-> set.inverted,
     toggle |-> set.toggle, feedback |-> feedback, servo |-> servo,
     input |-> input, output_off |-> off, output_on |-> on,
     mode |-> set.mode, var |-> set.var]

Setting(k) == CHOOSE s \in StoredSettings : s.mode = k

\* what slot 0 may hold
StoredFirst ==
    { EmptySlot,
      StoredSlot(TRUE, Setting(NO_REALISM), 3, 2, FALSE, ERROR, ERROR),
      StoredSlot(TRUE, Setting(SIGNAL_REALISM), 3, 2, TRUE, 4, 7),
      StoredSlot(TRUE, Setting(POINT_REALISM), 5, 4, FALSE, ERROR, ERROR),
      StoredSlot(TRUE, Setting(POINT_REALISM), 2, 2, FALSE, ERROR, ERROR),
      StoredSlot(TRUE, Setting(SIGNAL_REALISM), 3, 3, FALSE, ERROR, ERROR) }

\* what slot 1 may hold
StoredSecond ==
    { StoredSlot(a, set, p, i, f, x, y) :
        a \in BOOLEAN, set \in StoredSettings, p \in {3, 5, 2, 22, ERROR},
        i \in {2, 3, 4, 0, 22}, f \in BOOLEAN, x \in {ERROR, 4, 2, 7, 3},
        y \in {ERROR, 4, 7, 22} }

StoredBlocks ==
    { [readable |-> TRUE, valid |-> TRUE,
       data |-> [i \in Servos |-> IF i = 0 THEN c0 ELSE IF i = 1 THEN c1
                                  ELSE EmptySlot]] :
        c0 \in StoredFirst, c1 \in StoredSecond }

ApplyInit ==
    /\ md = NoCall
    /\ \E block \in StoredBlocks : PowerOn(block)

ApplySpec == ApplyInit /\ [][Setup]_vars

(***************************************************************************)
(* The pin commands (define, delete, enable and disable feedback) after    *)
(* setup(), on slots 0 and 1 and an out of range slot number.              *)
(***************************************************************************)
PinBlocks ==
    { [readable |-> FALSE, valid |-> FALSE, data |-> [i \in Servos |-> ZeroConf]] }
    \cup
    { [readable |-> TRUE, valid |-> TRUE,
       data |-> [i \in Servos |-> IF i = 0 THEN c0 ELSE IF i = 1 THEN c1
                                  ELSE EmptySlot]] :
        c0 \in {EmptySlot,
                StoredSlot(TRUE, Setting(SIGNAL_REALISM), 3, 2, TRUE, 4, 7),
                StoredSlot(TRUE, Setting(SIGNAL_REALISM), 3, 3, FALSE, ERROR, ERROR)},
        c1 \in {EmptySlot,
                StoredSlot(TRUE, Setting(POINT_REALISM), 5, 8, FALSE, ERROR, ERROR)} }

PinInit ==
    /\ md = NoCall
    /\ \E block \in PinBlocks : PowerOn(block)

ServoNumbers == {0, 1, AVAILABLE_SERVOS}

PinNext ==
    \/ Setup
    \/ \E s \in ServoNumbers, p \in {3, 5, 2, 22}, i \in {2, 4, 3} :
          CreateServo(s, p, i)
    \/ \E s, x \in ServoNumbers : DeleteServo(s, x)
    \/ \E s \in ServoNumbers, a, b \in {4, 7, 8, 0} : AssignFeedback(s, a, b)
    \/ \E s \in ServoNumbers : QuietFeedback(s)

PinSpec == PinInit /\ [][PinNext]_vars

(***************************************************************************)
(* Every command that changes the configuration, after setup() on a block  *)
(* that defines slot 1, given slot 0, slot 1 and an out of range slot      *)
(* number, and values inside and outside each range.                       *)
(***************************************************************************)
CmdBlocks ==
    { [readable |-> TRUE, valid |-> TRUE,
       data |-> [i \in Servos |-> IF i = 0 THEN c0 ELSE IF i = 1 THEN c1
                                  ELSE EmptySlot]] :
        c0 \in {EmptySlot},
        c1 \in {StoredSlot(TRUE, Setting(POINT_REALISM), 5, 8, FALSE, ERROR, ERROR)} }

CmdInit ==
    /\ md = NoCall
    /\ \E block \in CmdBlocks : PowerOn(block)

CmdServos == {0, AVAILABLE_SERVOS}

CmdNext ==
    \/ Setup
    \/ \E s \in CmdServos, p \in {3, 5, 22}, i \in {2, 8, 3} : CreateServo(s, p, i)
    \/ \E s \in CmdServos, a \in {90, 181} : AdjustSweep(s, a)
    \/ \E s \in CmdServos, i \in BOOLEAN : AdjustInvert(s, i)
    \/ \E d \in {<<0, 0>>, <<0, 1>>, <<1, 0>>, <<0, 6>>, <<6, 6>>} :
          DeleteServo(d[1], d[2])
    \/ \E s \in CmdServos : ToggleSwitch(s)
    \/ \E s \in CmdServos : MomentarySwitch(s)
    \/ \E s \in CmdServos, f \in {<<4, 7>>, <<4, 4>>, <<4, 8>>, <<22, 4>>} :
          AssignFeedback(s, f[1], f[2])
    \/ \E s \in CmdServos : QuietFeedback(s)
    \/ \E s \in CmdServos : DisableRealism(s)
    \/ \E s \in CmdServos : EnablePointRealism(s)
    \/ \E s \in CmdServos : EnableSignalRealism(s)
    \/ \E s \in CmdServos, v \in {500, PAUSE_MAX + 1} : SetPointPause(s, v)
    \/ \E s \in CmdServos, v \in {DECAY_DEFAULT, DECAY_MAX + 1} :
          SetSignalDecay(s, v)
    \/ \E s \in CmdServos, v \in {FRICTION_DEFAULT, FRICTION_MAX + 1} :
          SetSignalFriction(s, v)
    \/ \E s \in CmdServos, v \in {SLACK_DEFAULT, SLACK_MAX + 1} :
          SetSignalSlack(s, v)
    \/ \E s \in CmdServos, v \in {STRETCH_DEFAULT, STRETCH_MAX + 1} :
          SetSignalStretch(s, v)
    \/ \E s \in CmdServos, v \in {SPEED_MIN, SPEED_MAX + 1} : SetSignalSpeed(s, v)
    \/ \E s \in CmdServos, g \in {2, 4} : SetSignalGravity(s, g)

CmdSpec == CmdInit /\ [][CmdNext]_vars

(***************************************************************************)
(* The service specification: setup() on a stored block with one servo in  *)
(* slot 0, then passes of loop() with the switch at either level.          *)
(***************************************************************************)
\* the latest time millis() returns
MaxNow == 1

ServiceSettings ==
    { [sweep |-> 90, inverted |-> FALSE, toggle |-> TRUE, mode |-> NO_REALISM,
       var |-> <<0, 0, 0, 0, 0, 0>>],
      [sweep |-> 90, inverted |-> TRUE, toggle |-> FALSE, mode |-> NO_REALISM,
       var |-> <<0, 0, 0, 0, 0, 0>>],
      [sweep |-> 1, inverted |-> FALSE, toggle |-> TRUE, mode |-> POINT_REALISM,
       var |-> <<0, 0, 0, 0, 0, 0>>],
      [sweep |-> 1, inverted |-> FALSE, toggle |-> TRUE, mode |-> SIGNAL_REALISM,
       var |-> <<50, 0, LOWER_ACCEL, 0, 0, SPEED_MAX>>] }

ServiceBlocks ==
    { [readable |-> TRUE, valid |-> TRUE,
       data |-> [i \in Servos |->
                    IF i = 0
                    THEN StoredSlot(TRUE, set, 3, 2, set.mode = NO_REALISM,
                                    IF set.mode = NO_REALISM THEN 4 ELSE ERROR,
                                    IF set.mode = NO_REALISM THEN 7 ELSE ERROR)
                    ELSE EmptySlot]] :
        set \in ServiceSettings }

\* what a read past the end of a gravity table may return
FlashWords == {0, Pow2(UIntBits) - 1}

ServiceInit ==
    /\ md = NoCall
    /\ \E block \in ServiceBlocks : PowerOn(block)

\* how far past the ends of its sweep a position is followed
MaxOvershoot == 0

Followed ==
    \A s \in Servos :
        run_state[s].position \in
            -MaxOvershoot .. configuration[s].sweep + MaxOvershoot

ServiceNext ==
    \/ Setup
    \/ \E t \in {now, now + 1}, level \in {"LOW", "HIGH"}, word \in FlashWords :
          t <= MaxNow /\ Followed /\ Loop(t, level, word)

ServiceSpec == ServiceInit /\ [][ServiceNext]_vars


(***************************************************************************)
(* The point specification: one point servo on a toggle switch, sweep 2    *)
(* and pause 1, and passes of loop() while the clock runs up to PointTime. *)
(* The clock is read with a new value at most once in a round of the       *)
(* slots.                                                                  *)
(***************************************************************************)
\* the latest time millis() returns
PointTime == 6

PointBlocks ==
    { [readable |-> TRUE, valid |-> TRUE,
       data |-> [i \in Servos |->
                    IF i = 0
                    THEN StoredSlot(TRUE,
                                    [sweep |-> 2, inverted |-> FALSE,
                                     toggle |-> TRUE, mode |-> POINT_REALISM,
                                     var |-> <<1, 0, 0, 0, 0, 0>>],
                                    3, 2, TRUE, 4, 7)
                    ELSE EmptySlot]] }

PointInit ==
    /\ md = NoCall
    /\ \E block \in PointBlocks : PowerOn(block)

PointNext ==
    \/ Setup
    \/ \E t \in (IF this_servo = 0 THEN {now, now + 1} ELSE {now}),
          level \in {"LOW", "HIGH"} :
          t <= PointTime /\ Loop(t, level, 0)

PointSpec == PointInit /\ [][PointNext]_vars

(***************************************************************************)
(* The drop specification: one inverted signal servo on a toggle switch    *)
(* that is left open, so that setup() leaves it ON and the first pass      *)
(* sends it to OFF, a drop from position 0 to its sweep.  The clock moves  *)
(* in steps of DropTick, at most once in a round of the slots.             *)
(***************************************************************************)
\* the latest time millis() returns
DropTime == 40

\* the step of the clock
DropTick == 10

DropBlocks ==
    { [readable |-> TRUE, valid |-> TRUE,
       data |-> [i \in Servos |->
                    IF i = 0
                    THEN StoredSlot(TRUE,
                                    [sweep |-> 3, inverted |-> TRUE,
                                     toggle |-> TRUE, mode |-> SIGNAL_REALISM,
                                     var |-> <<50, f, a, 1, 1, SPEED_MAX>>],
                                    3, 2, TRUE, 4, 7)
                    ELSE EmptySlot]] :
        f \in {FRICTION_MIN, FRICTION_MAX}, a \in {LOWER_ACCEL, ARC_ACCEL} }

DropInit ==
    /\ md = NoCall
    /\ \E block \in DropBlocks : PowerOn(block)

DropNext ==
    \/ Setup
    \/ \E t \in (IF this_servo = 0 THEN {now, now + DropTick} ELSE {now}),
          word \in FlashWords :
          t <= DropTime /\ Followed /\ Loop(t, "HIGH", word)

DropSpec == DropInit /\ [][DropNext]_vars

(***************************************************************************)
(* The checksum of the stored block: set_checksum, valid_eeprom            *)
(***************************************************************************)
\* A chunk is an int; the model keeps ChunkBits bits of it, as a bit pattern.
ChunkBits == 3

\* CHUNK_COUNT, the number of ints covering the configuration.
CHUNK_COUNT == 2

Chunks == 0 .. Pow2(ChunkBits) - 1

\* a ^ b on n-bit patterns.
RECURSIVE Xor(_, _, _)
Xor(a, b, n) ==
    IF n = 0 THEN 0
    ELSE (((a % 2) + (b % 2)) % 2) + 2 * Xor(a \div 2, b \div 2, n - 1)

\* ~0
AllOnes == Pow2(ChunkBits) - 1

\* for( int i = 0; i < CHUNK_COUNT; c ^= ptr->var.chunk[ i++ ]);
RECURSIVE Parity(_, _, _)
Parity(c, chunk, i) ==
    IF i > CHUNK_COUNT THEN c
    ELSE Parity(Xor(c, chunk[i], ChunkBits), chunk, i + 1)

set_checksum_FromZero(ptr) == [ptr EXCEPT !.checksum = Parity(0, ptr.chunk, 1)]

set_checksum(ptr) == [ptr EXCEPT !.checksum = Parity(AllOnes, ptr.chunk, 1)]

valid_eeprom(ptr) == Parity(AllOnes, ptr.chunk, 1) = ptr.checksum

\* The stored block with bit b of word k inverted; word 0 is the checksum.
FlipBit(ptr, k, b) ==
    IF k = 0 THEN [ptr EXCEPT !.checksum = Xor(@, Pow2(b), ChunkBits)]
    ELSE [ptr EXCEPT !.chunk[k] = Xor(@, Pow2(b), ChunkBits)]

ChecksumInit ==
    /\ md = [pc |-> "fresh", flips |-> 0, checked |-> FALSE]
    /\ \E chunk \in [1 .. CHUNK_COUNT -> Chunks], sum \in Chunks :
          PowerOn([readable |-> TRUE, valid |-> FALSE,
                   data |-> [checksum |-> sum, chunk |-> chunk]])

SetChecksum ==
    /\ md.pc = "fresh"
    /\ md' = [md EXCEPT !.pc = "stored"]
    /\ eeprom' = [eeprom EXCEPT !.data = set_checksum(@)]
    /\ UNCHANGED <<pc, configuration, assigned_pin, run_state, pin_mode,
                   pin_level, console, errors, this_servo, now, led, history,
                   last_pass, motion>>

\* One bit of the stored block changes under the program.
Corrupt ==
    /\ md.pc = "stored"
    /\ md.flips = 0
    /\ \E k \in 0 .. CHUNK_COUNT, b \in 0 .. ChunkBits - 1 :
          eeprom' = [eeprom EXCEPT !.data = FlipBit(@, k, b)]
    /\ md' = [md EXCEPT !.flips = 1, !.checked = FALSE]
    /\ UNCHANGED <<pc, configuration, assigned_pin, run_state, pin_mode,
                   pin_level, console, errors, this_servo, now, led, history,
                   last_pass, motion>>

ValidEeprom ==
    /\ md.pc = "stored"
    /\ ~md.checked
    /\ md' = [md EXCEPT !.checked = TRUE]
    /\ eeprom' = [eeprom EXCEPT !.valid = valid_eeprom(eeprom.data)]
    /\ UNCHANGED <<pc, configuration, assigned_pin, run_state, pin_mode,
                   pin_level, console, errors, this_servo, now, led, history,
                   last_pass, motion>>

ChecksumNext == SetChecksum \/ Corrupt \/ ValidEeprom

ChecksumSpec == ChecksumInit /\ [][ChecksumNext]_vars

(***************************************************************************)
(* Degrees to arc units and back                                           *)
(***************************************************************************)
\* The arc conversions for an ARC_GRANULARITY of g steps.
ArcToDegrees(v, g) == MulDiv(v, 180, g, UIntBits)

DegreesToArc(v, g) == MulDiv(v, g, 180, UIntBits)

\* The largest GRAVITY_SUB_STEPS for which ARC_GRANULARITY fits an
\* unsigned int.
MaxSubSteps == (Pow2(UIntBits) - 1) \div 180

\* The multipliers tried: this many of the smallest and of the largest.
SubStepSpan == 8

SubSteps == (1 .. SubStepSpan) \cup (MaxSubSteps - SubStepSpan .. MaxSubSteps)

ArcInit ==
    /\ \E k \in SubSteps, v \in 0 .. 180 :
          md = [pc |-> "degrees", steps |-> k, v |-> v, arc |-> 0, back |-> 0]
    /\ PowerOn([readable |-> FALSE, valid |-> FALSE,
                data |-> [i \in Servos |-> ZeroConf]])

ToArc ==
    /\ md.pc = "degrees"
    /\ md' = [md EXCEPT !.pc = "arc",
                        !.arc = DegreesToArc(md.v, ToUInt(180 * md.steps))]
    /\ UNCHANGED progVars

ToDegrees ==
    /\ md.pc = "arc"
    /\ md' = [md EXCEPT !.pc = "back",
                        !.back = ArcToDegrees(md.arc, ToUInt(180 * md.steps))]
    /\ UNCHANGED progVars

ArcNext == ToArc \/ ToDegrees

ArcSpec == ArcInit /\ [][ArcNext]_vars

(***************************************************************************)
(* Service passes interleaved with console commands, on one servo          *)
(***************************************************************************)
MixTime == 3

\* Slot 0 holds a point servo of two arc units on a toggle switch; the
\* other slots are empty.
MixBlocks ==
    {[readable |-> TRUE, valid |-> TRUE,
      data |-> [i \in Servos |->
                  IF i = 0
                  THEN StoredSlot(TRUE, [sweep |-> 2, inverted |-> inv,
                                         toggle |-> TRUE, mode |-> POINT_REALISM,
                                         var |-> <<1, 0, 0, 0, 0, 0>>],
                                  3, 2, TRUE, 4, 7)
                  ELSE EmptySlot]] : inv \in BOOLEAN}

MixInit ==
    /\ md = NoCall
    /\ \E block \in MixBlocks : PowerOn(block)

\* The switch of slot 0 has kept its level for a whole debounce.
Settled == history[0].streak = StreakCap

\* The switch is moved up to this time, and left alone afterwards; the
\* commands arrive after it.
MixSwitchUntil == 0

\* The switch is moved by hand: it keeps a level until it has settled.
Steady(t, level) ==
    IF this_servo = 0
    THEN level = history[0].level \/ (Settled /\ t <= MixSwitchUntil)
    ELSE level = "HIGH"

MixLoop ==
    \E t \in (IF this_servo = 0 /\ Settled THEN {now, now + 1} ELSE {now}),
       level \in {"LOW", "HIGH"} :
          /\ t <= MixTime
          /\ Followed
          /\ Steady(t, level)
          /\ Loop(t, level, 0)

MixCommand ==
    /\ this_servo = 0
    /\ Settled
    /\ now > MixSwitchUntil
    /\ \/ DisableRealism(0)
       \/ EnablePointRealism(0)
       \/ EnableSignalRealism(0)
       \/ \E a \in {0, 1} : AdjustSweep(0, a)
       \/ \E i \in BOOLEAN : AdjustInvert(0, i)

MixNext == Setup \/ MixLoop \/ MixCommand

MixSpec == MixInit /\ [][MixNext]_vars

(***************************************************************************)
(* A push button pressed and released between changes of realism mode      *)
(***************************************************************************)
FlipTime == 0

\* Slot 0 holds a point servo of two arc units on a momentary switch.
FlipBlocks ==
    {[readable |-> TRUE, valid |-> TRUE,
      data |-> [i \in Servos |->
                  IF i = 0
                  THEN StoredSlot(TRUE, [sweep |-> 2, inverted |-> inv,
                                         toggle |-> FALSE, mode |-> POINT_REALISM,
                                         var |-> <<1, 0, 0, 0, 0, 0>>],
                                  3, 2, TRUE, 4, 7)
                  ELSE EmptySlot]] : inv \in BOOLEAN}

FlipInit ==
    /\ md = NoCall
    /\ \E block \in FlipBlocks : PowerOn(block)

FlipLoop ==
    \E t \in (IF this_servo = 0 /\ Settled THEN {now, now + 1} ELSE {now}),
       level \in {"LOW", "HIGH"} :
          /\ t <= FlipTime
          /\ Followed
          /\ IF this_servo = 0 THEN level = history[0].level \/ Settled
             ELSE level = "HIGH"
          /\ Loop(t, level, 0)

\* The mode is changed with the button at rest.
FlipCommand ==
    /\ this_servo = 0
    /\ Settled
    /\ history[0].level = "HIGH"
    /\ \/ DisableRealism(0)
       \/ EnableSignalRealism(0)

FlipNext == Setup \/ FlipLoop \/ FlipCommand

FlipSpec == FlipInit /\ [][FlipNext]_vars

(***************************************************************************)
(* A signal drop with the gravity table changed under it                   *)
(***************************************************************************)
GravityTime == 160

\* the step of the clock
GravityTick == 80

\* Slot 0 holds an inverted signal servo of four arc units on the longest
\* table; the open switch sends it from ON to OFF.
GravityBlocks ==
    { [readable |-> TRUE, valid |-> TRUE,
       data |-> [i \in Servos |->
                    IF i = 0
                    THEN StoredSlot(TRUE,
                                    [sweep |-> 4, inverted |-> TRUE,
                                     toggle |-> TRUE, mode |-> SIGNAL_REALISM,
                                     var |-> <<d, f, ARC_ACCEL, 1, 1, SPEED_MAX>>],
                                    3, 2, TRUE, 4, 7)
                    ELSE EmptySlot]] :
        f \in {FRICTION_MIN, FRICTION_MAX}, d \in {DECAY_MIN, DECAY_DEFAULT} }

GravityInit ==
    /\ md = NoCall
    /\ \E block \in GravityBlocks : PowerOn(block)

GravityLoop ==
    \E t \in (IF this_servo = 0 THEN {now, now + GravityTick} ELSE {now}),
       word \in FlashWords :
          t <= GravityTime /\ Followed /\ Loop(t, "HIGH", word)

GravityCommand ==
    /\ this_servo = 0
    /\ \E g \in {2, 3} : SetSignalGravity(0, g)

GravityNext == Setup \/ GravityLoop \/ GravityCommand

GravitySpec == GravityInit /\ [][GravityNext]_vars

(***************************************************************************)
(* A signal drop left to rebound                                           *)
(***************************************************************************)
ReboundTime == 1200

\* the step of the clock
ReboundTick == 80

\* the largest decay counted as small
SmallDecay == 20

\* Slot 0 holds an inverted signal servo of four arc units; the open switch
\* sends it from ON to OFF.
ReboundBlocks ==
    { [readable |-> TRUE, valid |-> TRUE,
       data |-> [i \in Servos |->
                    IF i = 0
                    THEN StoredSlot(TRUE,
                                    [sweep |-> 4, inverted |-> TRUE,
                                     toggle |-> TRUE, mode |-> SIGNAL_REALISM,
                                     var |-> <<d, f, ARC_ACCEL, 1, 1, SPEED_MAX>>],
                                    3, 2, TRUE, 4, 7)
                    ELSE EmptySlot]] :
        f \in {FRICTION_MIN, FRICTION_MAX},
        d \in {1, SmallDecay, DECAY_DEFAULT} }

ReboundInit ==
    /\ md = NoCall
    /\ \E block \in ReboundBlocks : PowerOn(block)

ReboundNext ==
    \/ Setup
    \/ \E t \in (IF this_servo = 0 THEN {now, now + ReboundTick} ELSE {now}) :
          t <= ReboundTime /\ Followed /\ Loop(t, "HIGH", 0)

ReboundSpec == ReboundInit /\ [][ReboundNext]_vars

(***************************************************************************)
(* setup() on a block that cannot be read or fails its checksum            *)
(***************************************************************************)
\* The stored blocks, readable or not, with a matching checksum or not.
StartBlocks ==
    { [b EXCEPT !.readable = r, !.valid = v] :
        b \in {x \in StoredBlocks : x.data[1].input = 2 /\ x.data[1].feedback},
        r \in BOOLEAN, v \in BOOLEAN }

StartInit ==
    /\ md = NoCall
    /\ \E block \in StartBlocks : PowerOn(block)

StartSpec == StartInit /\ [][Setup]_vars

(***************************************************************************)
(* The range specification: setup() on a stored block whose slot 0 holds   *)
(* values outside their ranges, then console commands on slot 0 with       *)
(* values inside and outside the ranges.                                   *)
(***************************************************************************)
RangeSettings ==
    { [sweep |-> ARC_GRANULARITY + 280, inverted |-> FALSE, toggle |-> TRUE,
       mode |-> POINT_REALISM, var |-> <<PAUSE_MAX + 1000, 0, 0, 0, 0, 0>>],
      [sweep |-> -1, inverted |-> TRUE, toggle |-> TRUE,
       mode |-> POINT_REALISM, var |-> <<-5, 300, 9, 300, 300, 300>>],
      [sweep |-> 90, inverted |-> FALSE, toggle |-> TRUE,
       mode |-> SIGNAL_REALISM,
       var |-> <<DECAY_MAX + 1, -1, 7, SLACK_MAX + 100, -3, SPEED_MAX + 50>>],
      [sweep |-> ARC_GRANULARITY + 1, inverted |-> TRUE, toggle |-> FALSE,
       mode |-> SIGNAL_REALISM,
       var |-> <<-1, FRICTION_MAX + 1, ARC_ACCEL, -1, STRETCH_MAX + 1, -1>>],
      [sweep |-> ARC_GRANULARITY, inverted |-> FALSE, toggle |-> FALSE,
       mode |-> NO_REALISM, var |-> <<5000, 300, 9, 300, 300, 300>>],
      [sweep |-> 0, inverted |-> FALSE, toggle |-> FALSE,
       mode |-> 3, var |-> <<-7, -7, -7, -7, -7, -7>>] }

RangeBlocks ==
    { [readable |-> TRUE, valid |-> TRUE,
       data |-> [i \in Servos |-> IF i = 0 THEN c0 ELSE EmptySlot]] :
        c0 \in { StoredSlot(TRUE, set, 3, 2, FALSE, ERROR, ERROR) :
                    set \in RangeSettings } }

RangeInit ==
    /\ md = NoCall
    /\ \E block \in RangeBlocks : PowerOn(block)

\* the values a command is given for a parameter with the range lo .. hi
\* and the default def
Around(lo, hi, def) == {lo - 1, def, hi + 1}

RangeNext ==
    \/ Setup
    \/ CreateServo(0, 3, 2)
    \/ DeleteServo(0, 0)
    \/ \E a \in {-1, 180, 181} : AdjustSweep(0, a)
    \/ DisableRealism(0)
    \/ EnablePointRealism(0)
    \/ EnableSignalRealism(0)
    \/ \E v \in Around(PAUSE_MIN, PAUSE_MAX, PAUSE_MAX) : SetPointPause(0, v)
    \/ \E v \in Around(DECAY_MIN, DECAY_MAX, DECAY_MIN) : SetSignalDecay(0, v)
    \/ \E v \in Around(FRICTION_MIN, FRICTION_MAX, FRICTION_DEFAULT) :
          SetSignalFriction(0, v)
    \/ \E v \in Around(SLACK_MIN, SLACK_MAX, SLACK_DEFAULT) :
          SetSignalSlack(0, v)
    \/ \E v \in Around(STRETCH_MIN, STRETCH_MAX, STRETCH_DEFAULT) :
          SetSignalStretch(0, v)
    \/ \E v \in Around(SPEED_MIN, SPEED_MAX, SPEED_DEFAULT) :
          SetSignalSpeed(0, v)
    \/ \E g \in {-1, 3, 4} : SetSignalGravity(0, g)

RangeSpec == RangeInit /\ [][RangeNext]_vars

(***************************************************************************)
(* The wraparound specification: one inverted point servo or one inverted  *)
(* signal servo on a toggle switch that is left open, so that the first    *)
(* pass sends it to OFF.  The first pass reads millis() a little before    *)
(* the counter wraps, and the clock then moves by at most one millisecond  *)
(* in a round of the slots, through the wrap, to WrapAfter.                *)
(***************************************************************************)
\* how long before the wrap the first pass may come
WrapBefore == 40

\* the latest time millis() returns after the wrap
WrapAfter == 60

WrapBlocks ==
    { [readable |-> TRUE, valid |-> TRUE,
       data |-> [i \in Servos |->
                    IF i = 0
                    THEN StoredSlot(TRUE, set, 3, 2, TRUE, 4, 7)
                    ELSE EmptySlot]] :
        set \in { [sweep |-> 2, inverted |-> TRUE, toggle |-> TRUE,
                   mode |-> POINT_REALISM, var |-> <<2, 0, 0, 0, 0, 0>>],
                  [sweep |-> 3, inverted |-> TRUE, toggle |-> TRUE,
                   mode |-> SIGNAL_REALISM,
                   var |-> <<50, FRICTION_MAX, LOWER_ACCEL, 1, 1, SPEED_MAX>>] } }

WrapInit ==
    /\ md = NoCall
    /\ \E block \in WrapBlocks : PowerOn(block)

\* the values of millis() the passes may read
WrapWindow ==
    (Pow2(ULongBits) - WrapBefore .. Pow2(ULongBits) - 1) \cup (0 .. WrapAfter)

WrapNext ==
    \/ Setup
    \/ \E t \in (IF last_pass = NoPass
                 THEN Pow2(ULongBits) - WrapBefore .. Pow2(ULongBits) - 1
                 ELSE IF this_servo = 0 THEN {now, ULongAdd(now, 1)}
                 ELSE {now}) :
          t \in WrapWindow /\ Followed /\ Loop(t, "HIGH", 0)

WrapSpec == WrapInit /\ [][WrapNext]_vars

(***************************************************************************)
(* The turn specification: one point servo of two arc units with feedback  *)
(* pins on a toggle switch that is moved by hand at time 0, and sweep and   *)
(* invert commands while the point is on its way.                          *)
(***************************************************************************)
\* the latest time millis() returns
TurnTime == 6

TurnLoop ==
    \E t \in (IF this_servo = 0 /\ Settled THEN {now, now + 1} ELSE {now}),
       level \in {"LOW", "HIGH"} :
          /\ t <= TurnTime
          /\ Steady(t, level)
          /\ Loop(t, level, 0)

TurnCommand ==
    /\ this_servo = 0
    /\ Settled
    /\ now > MixSwitchUntil
    /\ \/ \E a \in {0, 1} : AdjustSweep(0, a)
       \/ \E i \in BOOLEAN : AdjustInvert(0, i)

TurnNext == Setup \/ TurnLoop \/ TurnCommand

TurnSpec == MixInit /\ [][TurnNext]_vars

(***************************************************************************)
(* The fall specification: the drop of DropSpec for a signal servo whose   *)
(* sweep is 0, the sweep create_servo gives a new servo, or 3 arc units.   *)
(* The position is followed up to FallOvershoot arc units past the sweep.  *)
(***************************************************************************)
\* the latest time millis() returns
FallTime == 60

\* the step of the clock
FallTick == 10

\* how far past the sweep the position is followed
FallOvershoot == 2

FallBlocks ==
    { [readable |-> TRUE, valid |-> TRUE,
       data |-> [i \in Servos |->
                    IF i = 0
                    THEN StoredSlot(TRUE,
                                    [sweep |-> w, inverted |-> TRUE,
                                     toggle |-> TRUE, mode |-> SIGNAL_REALISM,
                                     var |-> <<DECAY_MAX, f, a, 1, 1, SPEED_MAX>>],
                                    3, 2, TRUE, 4, 7)
                    ELSE EmptySlot]] :
        w \in {0, 3}, f \in {FRICTION_MIN, FRICTION_DEFAULT, FRICTION_MAX},
        a \in {LOWER_ACCEL, ARC_ACCEL} }

FallInit ==
    /\ md = NoCall
    /\ \E block \in FallBlocks : PowerOn(block)

FallNext ==
    \/ Setup
    \/ \E t \in (IF this_servo = 0 THEN {now, now + FallTick} ELSE {now}) :
          /\ t <= FallTime
          /\ run_state[0].position <= configuration[0].sweep + FallOvershoot
          /\ Loop(t, "HIGH", 0)

FallSpec == FallInit /\ [][FallNext]_vars

(***************************************************************************)
(* The rise specification: one signal servo of four arc units with         *)
(* feedback pins on a toggle switch that is held closed, so that after the *)
(* debounce it rises from OFF to ON.  The clock stands still during the    *)
(* debounce and then moves in steps of RiseTick.                           *)
(***************************************************************************)
\* the latest time millis() returns
RiseTime == 290

\* the step of the clock
RiseTick == 2

\* the speed parameter that makes the rise step every four milliseconds
SlowRise == SPEED_MAX - 4

RiseBlocks ==
    { [readable |-> TRUE, valid |-> TRUE,
       data |-> [i \in Servos |->
                    IF i = 0
                    THEN StoredSlot(TRUE,
                                    [sweep |-> 4, inverted |-> FALSE,
                                     toggle |-> TRUE, mode |-> SIGNAL_REALISM,
                                     var |-> <<DECAY_MAX, FRICTION_MIN,
                                               LOWER_ACCEL, k, x, v>>],
                                    3, 2, TRUE, 4, 7)
                    ELSE EmptySlot]] :
        k \in {0, 1}, x \in {0, 1, 3}, v \in {SlowRise, SPEED_MAX} }

RiseInit ==
    /\ md = NoCall
    /\ \E block \in RiseBlocks : PowerOn(block)

RiseNext ==
    \/ Setup
    \/ \E t \in (IF /\ this_servo = 0
                    /\ run_state[0].button_state
                    /\ run_state[0].button_count = 0
                 THEN {now, now + RiseTick} ELSE {now}) :
          t <= RiseTime /\ Followed /\ Loop(t, "LOW", 0)

RiseSpec == RiseInit /\ [][RiseNext]_vars

(***************************************************************************)
(* Realism switched off in the middle of a motion.  Slot 0 is an inverted  *)
(* servo whose open toggle switch starts a motion to OFF on its first      *)
(* pass; the console may then make the switch momentary and disable the    *)
(* realism.  The switch is left open throughout.                           *)
(***************************************************************************)
StopTime == 3

StopBlocks ==
    {[readable |-> TRUE, valid |-> TRUE,
      data |-> [i \in Servos |->
                  IF i = 0
                  THEN StoredSlot(TRUE, [sweep |-> 3, inverted |-> TRUE,
                                         toggle |-> TRUE, mode |-> k,
                                         var |-> IF k = POINT_REALISM
                                                 THEN <<1, 0, 0, 0, 0, 0>>
                                                 ELSE <<50, 50, LOWER_ACCEL,
                                                        1, 1, SPEED_MAX>>],
                                  3, 2, TRUE, 4, 7)
                  ELSE EmptySlot]] : k \in {POINT_REALISM, SIGNAL_REALISM}}

StopInit ==
    /\ md = NoCall
    /\ \E block \in StopBlocks : PowerOn(block)

StopLoop ==
    \E t \in (IF this_servo = 0 THEN {now, now + 1} ELSE {now}) :
        t <= StopTime /\ Loop(t, "HIGH", 0)

StopCommand ==
    /\ this_servo = 0
    /\ \/ DisableRealism(0)
       \/ MomentarySwitch(0)
       \/ ToggleSwitch(0)

StopNext == Setup \/ StopLoop \/ StopCommand

StopSpec == StopInit /\ [][StopNext]_vars

(***************************************************************************)
(* The lift specification: one signal servo, not inverted, on a toggle     *)
(* switch that is held closed, with a sweep, a slack and a stretch on      *)
(* either side of each other.  The passes go on while the position is      *)
(* within LiftOvershoot arc units of the sweep.                            *)
(***************************************************************************)
LiftTime == 250

LiftTick == 125

LiftOvershoot == 5

LiftBlocks ==
    { [readable |-> TRUE, valid |-> TRUE,
       data |-> [i \in Servos |->
                    IF i = 0
                    THEN StoredSlot(TRUE,
                                    [sweep |-> w, inverted |-> FALSE,
                                     toggle |-> TRUE, mode |-> SIGNAL_REALISM,
                                     var |-> <<DECAY_MAX, FRICTION_MIN,
                                               LOWER_ACCEL, k, x, SPEED_MAX>>],
                                    3, 2, TRUE, 4, 7)
                    ELSE EmptySlot]] :
        w \in {0, 2}, k \in {0, 1, 3}, x \in {0, 1, 3} }

LiftInit ==
    /\ md = NoCall
    /\ \E block \in LiftBlocks : PowerOn(block)

LiftNext ==
    \/ Setup
    \/ \E t \in (IF /\ this_servo = 0
                    /\ run_state[0].button_state
                    /\ run_state[0].button_count = 0
                 THEN {now, now + LiftTick} ELSE {now}) :
          /\ t <= LiftTime
          /\ run_state[0].position
                \in -LiftOvershoot .. configuration[0].sweep + LiftOvershoot
          /\ Loop(t, "LOW", 0)

LiftSpec == LiftInit /\ [][LiftNext]_vars

(***************************************************************************)
(* A signal drop with a decay of 34 or more, left alone: slot 0 holds an   *)
(* inverted signal servo on an open toggle switch, which setup() leaves ON *)
(* at position 0 and the first passes send to OFF at the sweep.            *)
(***************************************************************************)
SettleTime == 1600

SettleTick == 80

SettleOvershoot == 2

\* the least decay of the drops explored
SettleDecay == 34

SettleBlocks ==
    { [readable |-> TRUE, valid |-> TRUE,
       data |-> [i \in Servos |->
                    IF i = 0
                    THEN StoredSlot(TRUE,
                                    [sweep |-> w, inverted |-> TRUE,
                                     toggle |-> TRUE, mode |-> SIGNAL_REALISM,
                                     var |-> <<d, f, a, 1, 1, SPEED_MAX>>],
                                    3, 2, TRUE, 4, 7)
                    ELSE EmptySlot]] :
        w \in {1, 4, 6}, d \in {SettleDecay, DECAY_DEFAULT, DECAY_MAX},
        f \in {FRICTION_MIN, FRICTION_MAX}, a \in {LOWER_ACCEL, ARC_ACCEL} }

SettleInit ==
    /\ md = NoCall
    /\ \E block \in SettleBlocks : PowerOn(block)

SettleNext ==
    \/ Setup
    \/ \E t \in (IF this_servo = 0 THEN {now, now + SettleTick} ELSE {now}) :
          /\ t <= SettleTime
          /\ run_state[0].position
                \in -SettleOvershoot .. configuration[0].sweep + SettleOvershoot
          /\ Loop(t, "HIGH", 0)

SettleSpec == SettleInit /\ [][SettleNext]_vars

(***************************************************************************)
(* The realism mode changed in the middle of a motion: the servo of        *)
(* StopSpec, with the console switching between point and signal realism.  *)
(* The clock moves in steps longer than the default pause of a point.      *)
(***************************************************************************)
SwapTime == 360

SwapTick == 60

SwapLoop ==
    \E t \in (IF this_servo = 0 THEN {now, now + SwapTick} ELSE {now}) :
        t <= SwapTime /\ Followed /\ Loop(t, "HIGH", 0)

SwapCommand ==
    /\ this_servo = 0
    /\ \/ EnablePointRealism(0)
       \/ EnableSignalRealism(0)

SwapNext == Setup \/ SwapLoop \/ SwapCommand

SwapSpec == StopInit /\ [][SwapNext]_vars

(***************************************************************************)
(* The configuration saved and read back: the console commands of CmdSpec  *)
(* build a configuration, the W command writes it to the EEPROM, and the   *)
(* board is switched off and on again.                                     *)
(***************************************************************************)
\* int as a bit pattern of ChunkBits bits
AsChunk(v) == ((v % Pow2(ChunkBits)) + Pow2(ChunkBits)) % Pow2(ChunkBits)

AsInt(b) == IF b THEN 1 ELSE 0

\* the first ints of the block after the checksum: the leading fields of
\* slot 0, and 0 beyond them
LeadingInts(c) ==
    <<AsInt(c.active), c.sweep, AsInt(c.inverted), AsInt(c.toggle),
      AsInt(c.feedback), c.servo, c.input, c.output_off, c.output_on>>

ChunksOf(data) ==
    [k \in 1 .. CHUNK_COUNT |->
        IF k <= Len(LeadingInts(data[0])) THEN AsChunk(LeadingInts(data[0])[k])
        ELSE 0]

\* save_configuration: the checksum is set and the block written byte by
\* byte; valid is what valid_eeprom will find when the block is read back.
save_configuration(conf) ==
    LET p == set_checksum([checksum |-> 0, chunk |-> ChunksOf(conf)])
    IN  [readable |-> TRUE, valid |-> valid_eeprom(p), data |-> conf]

\* the command W
SaveConfiguration ==
    /\ pc = "loop"
    /\ md.pc = "none"
    /\ eeprom' = save_configuration(configuration)
    /\ md' = [md EXCEPT !.pc = "stored"]
    /\ console' = Append(console, "Done.")
    /\ UNCHANGED <<pc, configuration, assigned_pin, run_state, pin_mode,
                   pin_level, errors, this_servo, now, led, history,
                   last_pass, motion>>

\* The board is switched off and on: static storage is zero again and the
\* EEPROM keeps its block.
PowerCycle ==
    /\ pc = "loop"
    /\ md.pc = "stored"
    /\ pc' = "setup"
    /\ configuration' = [i \in Servos |-> ZeroConf]
    /\ assigned_pin' = [p \in Pins |-> 0]
    /\ run_state' = [i \in Servos |-> ZeroRun]
    /\ pin_mode' = [p \in Pins |-> "INPUT"]
    /\ pin_level' = [p \in Pins |-> "LOW"]
    /\ console' = <<>>
    /\ errors' = 0
    /\ this_servo' = 0
    /\ now' = 0
    /\ led' = [next |-> 0, state |-> FALSE]
    /\ history' = [i \in Servos |-> FreshHistory]
    /\ last_pass' = NoPass
    /\ motion' = [i \in Servos |-> NoMotion]
    /\ UNCHANGED <<md, eeprom>>

SaveNext ==
    \/ md.pc = "none" /\ CmdNext
    \/ md.pc = "stored" /\ Setup
    \/ SaveConfiguration
    \/ PowerCycle

SaveSpec == CmdInit /\ [][SaveNext]_vars

(***************************************************************************)
(* A slot deleted and defined again: the servo of StopSpec is serviced,    *)
(* deleted at some moment, and defined again on the same pins.             *)
(***************************************************************************)
RedoCommand ==
    /\ this_servo = 0
    /\ \/ DeleteServo(0, 0)
       \/ CreateServo(0, 3, 2)

RedoNext == Setup \/ StopLoop \/ RedoCommand

RedoSpec == StopInit /\ [][RedoNext]_vars

(***************************************************************************)
(* The version 1 sketch.  Its servo_state, button_state, button_count and  *)
(* human_input arrays are held in the fields state (SERVO_OFF or SERVO_ON),*)
(* button_state, button_count and human_input of run_state, its driver in  *)
(* written, and its feedback pins output_a and output_b in output_off and  *)
(* output_on.                                                              *)
(***************************************************************************)
\* driver[ s ].write( p->sweep ) and the feedback pins
set_servo_on(sv, c) ==
    LET s1 == DriverWrite(sv, c.sweep)
        s2 == FeedbackWrite(s1, c, c.output_off, "LOW")
        s3 == FeedbackWrite(s2, c, c.output_on, "HIGH")
    IN  [s3 EXCEPT !.r.state = SERVO_ON, !.call = "set_on"]

\* driver[ s ].write( 0 ) and the feedback pins
set_servo_off(sv, c) ==
    LET s1 == DriverWrite(sv, 0)
        s2 == FeedbackWrite(s1, c, c.output_off, "HIGH")
        s3 == FeedbackWrite(s2, c, c.output_on, "LOW")
    IN  [s3 EXCEPT !.r.state = SERVO_OFF, !.call = "set_off"]

\* the code after the switch on button_count
SwitchAction(sv, c, enabled) ==
    IF c.toggle
    THEN IF enabled
         THEN (IF sv.r.state # SERVO_ON THEN set_servo_on(sv, c) ELSE sv)
         ELSE (IF sv.r.state = SERVO_ON THEN set_servo_off(sv, c) ELSE sv)
    ELSE IF enabled THEN [sv EXCEPT !.r.human_input = TRUE]
    ELSE LET done == IF ~sv.r.human_input THEN sv
                     ELSE IF sv.r.state = SERVO_ON THEN set_servo_off(sv, c)
                     ELSE set_servo_on(sv, c)
         IN  [done EXCEPT !.r.human_input = FALSE]

\* the switch on button_count that goes on to the action while it counts
CountDown_ActsEarly(sv, c, enabled) ==
    IF sv.r.button_count = 0 THEN sv
    ELSE SwitchAction([sv EXCEPT !.r.button_count = @ - 1], c, enabled)

\* switch( button_count[ s ] )
CountDown(sv, c, enabled) ==
    IF sv.r.button_count = 0 THEN sv
    ELSE IF sv.r.button_count = 1
    THEN SwitchAction([sv EXCEPT !.r.button_count = 0], c, enabled)
    ELSE [sv EXCEPT !.r.button_count = @ - 1]

\* service_servo of the version 1 sketch
service_servo_1(sv, c, level) ==
    LET enabled == ReadSwitch(level)
    IN  IF ~c.active THEN sv
        ELSE IF enabled # sv.r.button_state
        THEN [sv EXCEPT !.r = StartCountdown(@, enabled)]
        ELSE CountDown(sv, c, enabled)

\* loop() of the version 1 sketch with no console input waiting
Loop_1(t, level) ==
    /\ pc = "loop"
    /\ LET c == configuration[this_servo]
           r == run_state[this_servo]
           blink == t > led.next
           lit == IF blink THEN ~led.state ELSE led.state
       IN  \E sv \in {service_servo_1([r |-> r, pl |-> pin_level,
                                       call |-> "none", writes |-> 0],
                                      c, level)} :
           /\ now' = t
           /\ run_state' = [run_state EXCEPT ![this_servo] = sv.r]
           /\ pin_level' = IF blink
                           THEN [sv.pl EXCEPT ![LED_PIN] = IF lit THEN "HIGH" ELSE "LOW"]
                           ELSE sv.pl
           /\ led' = IF blink THEN [next |-> ULongAdd(t, LED_DELAY), state |-> lit]
                     ELSE led
           /\ history' = IF c.active
                         THEN [history EXCEPT
                                 ![this_servo] = Passed(@, level, sv.call)]
                         ELSE history
           /\ last_pass' = IF c.active
                           THEN [servo |-> this_servo, level |-> level,
                                 call |-> sv.call,
                                 from |-> r.state,
                                 to |-> sv.r.state,
                                 same |-> sv.r = r,
                                 writes |-> IF sv.writes > 2 THEN 2 ELSE sv.writes,
                                 latched |-> sv.r.human_input /\ ~r.human_input,
                                 armed |-> history[this_servo].armed,
                                 ended |-> IF level = history[this_servo].level
                                           THEN 0 ELSE history[this_servo].streak]
                           ELSE [NoPass EXCEPT !.servo = this_servo]
    /\ this_servo' = NextServo(this_servo)
    /\ UNCHANGED <<md, pc, eeprom, configuration, assigned_pin, pin_mode,
                   console, errors, motion>>

\* The version 1 sketch after its setup(): slot 0 is a servo on pins 3 and
\* 2 with feedback on pins 4 and 7, on a toggle or a momentary switch, and
\* every array is clear.
Sketch1Slot(toggle) ==
    StoredSlot(TRUE, [sweep |-> 90, inverted |-> FALSE, toggle |-> toggle,
                      mode |-> NO_REALISM, var |-> <<0, 0, 0, 0, 0, 0>>],
               3, 2, TRUE, 4, 7)

Sketch1Init ==
    /\ md = NoCall
    /\ pc = "loop"
    /\ eeprom = [readable |-> TRUE, valid |-> TRUE,
                 data |-> [i \in Servos |-> EmptySlot]]
    /\ \E toggle \in BOOLEAN :
          configuration = [i \in Servos |->
                              IF i = 0 THEN Sketch1Slot(toggle) ELSE EmptySlot]
    /\ assigned_pin = [p \in Pins |-> IF p \in {2, 3, 4, 7} THEN 0 ELSE ERROR]
    /\ run_state = [i \in Servos |-> [ZeroRun EXCEPT !.attached = (i = 0)]]
    /\ pin_mode = [p \in Pins |-> IF p = 2 THEN "INPUT_PULLUP"
                                  ELSE IF p \in {4, 7, LED_PIN} THEN "OUTPUT"
                                  ELSE "INPUT"]
    /\ pin_level = [p \in Pins |-> "LOW"]
    /\ console = <<"Arduino Servo Driver.">>
    /\ errors = 0
    /\ this_servo = 0
    /\ now = 0
    /\ led = [next |-> 0, state |-> FALSE]
    /\ history = [i \in Servos |-> FreshHistory]
    /\ last_pass = NoPass
    /\ motion = [i \in Servos |-> NoMotion]

\* The switch of slot 0 may change its level on any pass.
Sketch1Next ==
    \E level \in (IF this_servo = 0 THEN {"LOW", "HIGH"} ELSE {"HIGH"}) :
        Loop_1(now, level)

Sketch1Spec == Sketch1Init /\ [][Sketch1Next]_vars

(***************************************************************************)
(* Claims                                                                  *)
(***************************************************************************)
\* floor(a*b/c) in unbounded arithmetic.
ExactQuotient == (md.a * md.b) \div md.c

\* C1: for all a, b, c of width W with c # 0 whose exact quotient fits in
\* W bits, mul_div returns floor(a*b/c), over the full unsigned range.
C1_MulDivExact ==
    (md.pc = "return" /\ ExactQuotient < Pow2(md.w)) => md.loc.d = ExactQuotient

(***************************************************************************)
(* apply_config                                                            *)
(***************************************************************************)
\* the four pin fields of a slot: drive, input, feedback-off, feedback-on
RolePins(c) == <<c.servo, c.input, c.output_off, c.output_on>>

Roles == 1 .. 4

\* the pins a slot holds
HeldPins(c) == {RolePins(c)[k] : k \in Roles} \ {ERROR}

\* the slots as stored in the EEPROM
Stored == eeprom.data

SomeRepeat(c) ==
    \E j, k \in Roles : j # k /\ RolePins(c)[j] # ERROR
                        /\ RolePins(c)[j] = RolePins(c)[k]

\* C2: after apply_config no pin is held by two active slots and no pin is
\* held in two roles of one active slot, whatever pins the stored
\* configuration repeats.
C2_NoPinHeldTwice ==
    pc = "loop" =>
        \A s, t \in Servos : \A j, k \in Roles :
            (/\ configuration[s].active /\ configuration[t].active
             /\ (s # t \/ j # k)
             /\ RolePins(configuration[s])[j] # ERROR)
            => RolePins(configuration[s])[j] # RolePins(configuration[t])[k]

\* C2 witness: the stored block repeats a pin inside slot 1 and shares a
\* pin between slots 0 and 1, and slot 0 is in use after apply_config.
C2_Witness ==
    /\ pc = "loop"
    /\ Stored[0].active /\ Stored[1].active
    /\ SomeRepeat(Stored[1])
    /\ HeldPins(Stored[0]) \cap HeldPins(Stored[1]) # {}
    /\ configuration[0].active

\* the slots apply_config dropped
Dropped == {i \in Servos : Stored[i].active /\ ~configuration[i].active}

\* the errors apply_config counts for a slot it keeps
KeptErrors(c) ==
    (IF c.mode \in {NO_REALISM, POINT_REALISM, SIGNAL_REALISM} THEN 0 ELSE 1)
    + (IF c.var[V_ACC] \in {LINEAR_ACCEL, UPPER_ACCEL, LOWER_ACCEL, ARC_ACCEL}
       THEN 0 ELSE 1)

RECURSIVE SumOver(_, _)
SumOver(S, f) ==
    IF S = {} THEN 0
    ELSE LET x == CHOOSE y \in S : TRUE IN f[x] + SumOver(S \ {x}, f)

\* C5: a slot apply_config rejects, at the first check or at the check for
\* repeated pins, ends fully reset, no pin stays claimed by it, every pin of
\* a slot that was accepted keeps that owner, and the error count is one
\* for each rejected slot (plus the mode and table errors of kept slots).
C5_RejectedSlotReset ==
    pc = "loop" =>
        /\ \A i \in Dropped :
              /\ ~configuration[i].active
              /\ configuration[i].sweep = 0
              /\ configuration[i].mode = NO_REALISM
              /\ RolePins(configuration[i]) = <<ERROR, ERROR, ERROR, ERROR>>
              /\ ~configuration[i].feedback
              /\ \A p \in Pins : assigned_pin[p] # i
        /\ \A j \in Servos : configuration[j].active =>
              \A p \in HeldPins(configuration[j]) : assigned_pin[p] = j
        /\ errors = Cardinality(Dropped)
                    + SumOver(Servos \ Dropped,
                              [i \in Servos |-> IF Stored[i].active
                                                THEN KeptErrors(Stored[i]) ELSE 0])

\* C5 witness: slot 0 was accepted and slot 1, whose pins pass the first
\* check, was rejected for using one pin as drive and as input.
C5_Witness ==
    /\ pc = "loop"
    /\ configuration[0].active
    /\ 1 \in Dropped
    /\ Stored[1].servo = 3 /\ Stored[1].input = 3
    /\ ~Stored[1].feedback /\ Stored[1].output_off = ERROR
    /\ Stored[1].output_on = ERROR
    /\ Stored[1].sweep # 0 /\ Stored[1].mode # NO_REALISM

\* a pin number that is in range and has capability f
Usable(p, f) == p \in Pins /\ PinHas(p, f)

\* the pins held by the slots below i that apply_config kept
ClaimedBelow(i) ==
    UNION {HeldPins(configuration[j]) :
              j \in {k \in Servos : k < i /\ configuration[k].active}}

\* what C6 asks of a stored slot c given the pins claimed before it
Acceptable(c, claimed) ==
    /\ Usable(c.input, FUNC_DIGITAL) /\ c.input \notin claimed
    /\ Usable(c.servo, FUNC_PWM) /\ c.servo \notin claimed
    /\ c.feedback =>
          /\ Usable(c.output_off, FUNC_DIGITAL) /\ c.output_off \notin claimed
          /\ Usable(c.output_on, FUNC_DIGITAL) /\ c.output_on \notin claimed
    /\ ~c.feedback => (c.output_off = ERROR /\ c.output_on = ERROR)
    /\ ~SomeRepeat(c)

\* C6: apply_config keeps an active slot if and only if its pins are in
\* range, capable of their role, not claimed by a lower kept slot and
\* mutually distinct, with both feedback fields 'none' when feedback is
\* off; of two slots that share a pin the lower one is kept.
C6_KeptIffAcceptable ==
    pc = "loop" =>
        \A i \in Servos :
            /\ configuration[i].active =>  Stored[i].active
            /\ Stored[i].active =>
                  (configuration[i].active <=> Acceptable(Stored[i], ClaimedBelow(i)))

\* C6 witness: slots 0 and 1 are each acceptable alone and share a pin;
\* slot 0 is kept and slot 1 dropped.
C6_Witness ==
    /\ pc = "loop"
    /\ Stored[0].active /\ Stored[1].active
    /\ Acceptable(Stored[0], {}) /\ Acceptable(Stored[1], {})
    /\ HeldPins(Stored[0]) \cap HeldPins(Stored[1]) # {}
    /\ configuration[0].active /\ ~configuration[1].active

(***************************************************************************)
(* The pin commands                                                        *)
(***************************************************************************)
\* the pins of a slot: drive, input and, with feedback enabled, the two
\* feedback pins
OwnedPins(c) ==
    {c.servo, c.input} \cup (IF c.feedback THEN {c.output_off, c.output_on} ELSE {})

\* C3: after setup() and any sequence of define, delete, enable-feedback
\* and disable-feedback commands, accepted or rejected, assigned_pin[p] = s
\* exactly when slot s is active and p is its drive pin, its input pin or
\* (feedback enabled) one of its feedback pins; the pins of a slot are
\* mutually distinct, the drive pin is PWM capable and the others digital
\* capable, and no pin is owned by two slots.
C3_PinTableMatchesSlots ==
    pc = "loop" =>
        /\ \A p \in Pins : assigned_pin[p] \in Servos \cup {ERROR}
        /\ \A p \in Pins, s \in Servos :
              assigned_pin[p] = s
              <=> (configuration[s].active /\ p \in OwnedPins(configuration[s]))
        /\ \A s \in Servos : configuration[s].active =>
              LET c == configuration[s] IN
              /\ OwnedPins(c) \subseteq Pins
              /\ Cardinality(OwnedPins(c)) = (IF c.feedback THEN 4 ELSE 2)
              /\ PinHas(c.servo, FUNC_PWM)
              /\ \A p \in OwnedPins(c) \ {c.servo} : PinHas(p, FUNC_DIGITAL)
        /\ \A s, t \in Servos :
              (s # t /\ configuration[s].active /\ configuration[t].active)
              => OwnedPins(configuration[s]) \cap OwnedPins(configuration[t]) = {}

\* C3 witness: slots 0 and 1, both empty in the stored block, are defined
\* by command, slot 0 with feedback, and the last command was refused for
\* a feedback pin.
C3_Witness ==
    /\ pc = "loop"
    /\ configuration[0].active /\ configuration[0].feedback
    /\ configuration[1].active /\ ~configuration[1].feedback
    /\ configuration[0].servo = 5 /\ configuration[1].servo = 3
    /\ ~Stored[0].active /\ ~Stored[1].active
    /\ console = <<"Invalid feedback pin.">>

\* C7: a successful delete of slot s, with or without feedback, leaves
\* every pin the slot held unassigned; a define of the same slot with the
\* same drive and input pins issued next succeeds, and so does the
\* enable-feedback with the former feedback pins that follows it.
C7_DeleteReleasesPins ==
    [][\A s \in Servos :
          (pc = "loop" /\ configuration[s].active /\ ~configuration'[s].active)
          => LET old == configuration[s]
                 made == create_servo(Machine', s, old.servo, old.input)
                 fed == assign_feedback([made EXCEPT !.out = <<>>], s,
                                        old.output_off, old.output_on)
             IN  /\ \A p \in OwnedPins(old) : assigned_pin'[p] = ERROR
                 /\ made.out = <<"Done.">>
                 /\ old.feedback => fed.out = <<"Done.">>]_vars

\* C7 witness: slot 0, which setup() kept with its feedback pins, has been
\* deleted while slot 1 is defined.
C7_Witness ==
    /\ pc = "loop"
    /\ eeprom.readable
    /\ Stored[0].active /\ Stored[0].feedback /\ Acceptable(Stored[0], {})
    /\ ~configuration[0].active
    /\ configuration[1].active
    /\ console = <<"Done.">>

\* C4: a rejected define, delete (also one given two different servo
\* numbers), set-angle, set-inversion, switch discipline, feedback, realism
\* or realism parameter command leaves the configuration, assigned_pin and
\* every run_state entry as they were, and prints one error message.
C4_RejectedChangesNothing ==
    [][(pc = "loop" /\ console' # <<"Done.">>)
       => (/\ Len(console') = 1
           /\ UNCHANGED <<configuration, assigned_pin, run_state>>)]_vars

\* C4 witness: a delete naming slots 0 and 1 was refused while both are
\* defined, slot 0 with feedback and signal realism.
C4_Witness ==
    /\ pc = "loop"
    /\ console = <<"Miss-matched servo numbers.">>
    /\ configuration[0].active /\ configuration[0].feedback
    /\ configuration[0].mode = SIGNAL_REALISM
    /\ configuration[1].active

\* the servo of the last pass of loop(), when its slot is in use
Serviced == last_pass.servo \in Servos /\ configuration[last_pass.servo].active

\* C8: a pass of service_servo makes a set_on, set_off or set_flip call, or
\* sets the human_input latch, only when the level it read has been read
\* on at least DEBOUNCE_TIME passes of that servo in a row: a level that
\* goes away after fewer passes than that causes no call and no latch.
C8_TransientIgnored ==
    (pc = "loop" /\ Serviced) =>
        ((last_pass.call \in Requests \/ last_pass.latched)
            => history[last_pass.servo].streak >= DEBOUNCE_TIME)

\* a closed switch was read on DEBOUNCE_TIME - 1 passes in a row of a
\* momentary servo, the pass after them read the open switch again, and
\* nothing was called and no latch set
C8_Witness ==
    /\ pc = "loop"
    /\ Serviced
    /\ ~configuration[last_pass.servo].toggle
    /\ last_pass.level = "HIGH"
    /\ last_pass.ended = DEBOUNCE_TIME - 1
    /\ last_pass.call = "none"
    /\ ~run_state[last_pass.servo].human_input
    /\ run_state[last_pass.servo].button_count = DEBOUNCE_TIME

\* C9 as stated: once a pass has read a changed level, at most one set_on,
\* set_off or set_flip call is made for as long as the passes of that servo
\* go on reading the new level.
C9_OneRequestPerLevel ==
    \A s \in Servos :
        (pc = "loop" /\ configuration[s].active /\ history[s].changed)
            => history[s].requests <= 1

\* C9: a level read on fewer than DEBOUNCE_TIME + 2 passes in a row causes
\* no strategy call and no latch; from the pass that makes it
\* DEBOUNCE_TIME + 2 on, every pass that reads it acts on it: a toggle
\* switch calls set_on for the closed and set_off for the open switch on
\* each of them, a momentary switch sets the latch, with no strategy call,
\* for the closed switch and calls set_flip or run_state for the open one.
C9_LevelActedOnEveryPass ==
    (pc = "loop" /\ Serviced) =>
        LET s == last_pass.servo
            enabled == last_pass.level = "LOW"
        IN  IF history[s].streak < DEBOUNCE_TIME + 2
            THEN last_pass.call = "none" /\ ~last_pass.latched
            ELSE IF configuration[s].toggle
            THEN last_pass.call = (IF enabled THEN "set_on" ELSE "set_off")
            ELSE IF enabled
            THEN last_pass.call = "none" /\ run_state[s].human_input
            ELSE last_pass.call \in {"set_flip", "run_state"}

\* a toggle servo whose closed switch has been acted on by two passes or
\* more, the last of them calling set_on again
C9_Witness ==
    /\ pc = "loop"
    /\ Serviced
    /\ configuration[last_pass.servo].toggle
    /\ last_pass.level = "LOW"
    /\ last_pass.call = "set_on"
    /\ history[last_pass.servo].changed
    /\ history[last_pass.servo].requests = 2
    /\ run_state[last_pass.servo].state = SERVO_ON

\* C10: on a pass that finds the open switch of a momentary servo confirmed,
\* set_flip is called when a confirmed closed switch came before it and has
\* not been answered by a flip yet, and run_state is called otherwise; so
\* one closing and opening of the switch gives one flip, however long either
\* level is held.
C10_OneFlipPerPress ==
    (pc = "loop" /\ Serviced) =>
        LET s == last_pass.servo
        IN  (/\ ~configuration[s].toggle
             /\ last_pass.level = "HIGH"
             /\ history[s].streak = StreakCap)
            => /\ last_pass.call = (IF last_pass.armed THEN "set_flip"
                                    ELSE "run_state")
               /\ history[s].requests <= 1

\* the pass after the flip that answered a closed switch: the servo has
\* left the state apply_config gave it and run_state is called
C10_Witness ==
    /\ pc = "loop"
    /\ Serviced
    /\ ~configuration[last_pass.servo].toggle
    /\ configuration[last_pass.servo].inverted
    /\ last_pass.call = "run_state"
    /\ history[last_pass.servo].requests = 1
    /\ run_state[last_pass.servo].state = SERVO_OFF
    /\ ~run_state[last_pass.servo].human_input

\* C11: a point servo that is not inverted and began a move to ON at rest
\* in OFF at position 0 has, while it moves, made as many steps as its
\* position says, and is ON only after as many steps as its sweep has arc
\* units; each step raised the position by one and came at least the pause
\* after the step before it.
C11_PointStepsToOn ==
    \A s \in Servos :
        (/\ pc = "loop"
         /\ configuration[s].active
         /\ run_state[s].strategy = POINT_REALISM
         /\ ~configuration[s].inverted
         /\ motion[s].tracking)
        => /\ motion[s].unit
           /\ motion[s].spaced
           /\ run_state[s].position = motion[s].steps
           /\ run_state[s].state = SERVO_ON
                => motion[s].steps = configuration[s].sweep

\* the servo of sweep 2 and pause 1 is ON after two steps, and the ON
\* feedback pin is up
C11_Witness ==
    /\ pc = "loop"
    /\ configuration[0].active
    /\ run_state[0].strategy = POINT_REALISM
    /\ configuration[0].sweep = 2
    /\ configuration[0].var[V_PAUSE] = 1
    /\ motion[0].tracking
    /\ motion[0].steps = 2
    /\ run_state[0].state = SERVO_ON
    /\ pin_level[configuration[0].output_on] = "HIGH"

\* C12: when a pass takes a step of the drop (state 4 of signal_fsm) for a
\* signal servo whose friction is 0, the time to the next event it sets is
\* the entry of the gravity table in use at the speed index the step began
\* with.
C12_DropDelayIsTableEntry ==
    [][\A s \in Servos :
          (/\ pc = "loop"
           /\ s = this_servo
           /\ configuration[s].active
           /\ run_state[s].strategy = SIGNAL_REALISM
           /\ configuration[s].var[V_FRICTION] = 0
           /\ run_state[s].index = SIGNAL_OFF
           /\ run_state'[s].position # run_state[s].position)
          => run_state'[s].next_event
                = now' + acc_table(run_state[s].acc)[run_state[s].fsm_speed + 1]]_vars

\* C13: valid_eeprom accepts a block straight after set_checksum, and
\* rejects it once any single bit of the stored block, in a data chunk or
\* in the checksum word, has been inverted.
C13_ChecksumCatchesOneBit ==
    (md.pc = "stored" /\ md.checked) => (eeprom.valid <=> md.flips = 0)

C13_Witness ==
    /\ md.pc = "stored"
    /\ md.checked
    /\ md.flips = 1
    /\ ~eeprom.valid

\* C14: for every whole degree v in 0..180 and every sub-step multiplier
\* for which 180 x sub-steps fits 16 bits unsigned, converting v to arc
\* units and back to degrees returns v.
C14_DegreesRoundTrip ==
    (md.pc = "back" /\ 180 * md.steps < Pow2(UIntBits)) => md.back = md.v

\* C18: every service pass of an active servo makes exactly one call into
\* its strategy (on, off, flip or tick), the passes of the debounce countdown
\* and those with a momentary switch confirmed enabled included.
C18_OneStrategyCallPerPass ==
    (pc = "loop" /\ last_pass.servo # ERROR
                 /\ configuration[last_pass.servo].active)
        => last_pass.call # "none"

\* A pass that called on with the servo stable ON, or off with it stable OFF.
AlreadyThere ==
    /\ pc = "loop"
    /\ last_pass.servo # ERROR
    /\ \/ last_pass.call = "set_on" /\ last_pass.from = SERVO_ON
       \/ last_pass.call = "set_off" /\ last_pass.from = SERVO_OFF

\* C19: under each of the three strategies, on called while the state is
\* stable ON, or off called while it is stable OFF, changes no runtime field
\* and writes neither a pulse width nor a feedback pin.
C19_NoOpWhenAlreadyThere ==
    AlreadyThere => (last_pass.same /\ last_pass.writes = 0)

C19_Witness ==
    /\ AlreadyThere
    /\ last_pass.call = "set_on"
    /\ run_state[last_pass.servo].strategy = SIGNAL_REALISM
    /\ last_pass.same
    /\ last_pass.writes = 0

\* C16: for a servo under the signal strategy the state machine index is 0
\* exactly when the logical state is stable (OFF or ON), and non-zero
\* exactly when it is MOVING_ON or MOVING_OFF.
C16_IndexZeroIffStable ==
    \A s \in Servos :
       (pc = "loop" /\ configuration[s].active
                    /\ run_state[s].strategy = SIGNAL_REALISM)
          => (run_state[s].index = 0
                 <=> run_state[s].state \in {SERVO_OFF, SERVO_ON})

\* The realism mode of slot s was changed, or slot s was deleted, by the step.
ModeChanged(s) ==
    /\ pc = "loop"
    /\ \/ configuration'[s].mode # configuration[s].mode
       \/ configuration[s].active /\ ~configuration'[s].active

\* C17: straight after a change of realism mode or a delete the bound
\* strategy is the one of the configured mode and the state machine index
\* is 0; and the bound strategy of every active slot always matches its
\* configured mode, a slot defined again after a delete included.
C17_StrategyMatchesMode ==
    [][\A s \in Servos :
          /\ ModeChanged(s) =>
                /\ run_state'[s].strategy = configuration'[s].mode
                /\ run_state'[s].index = 0
          /\ (pc' = "loop" /\ configuration'[s].active) =>
                run_state'[s].strategy = configuration'[s].mode]_vars

\* C15: in every reachable state the position of every active servo lies
\* between 0 and its sweep, whatever the interleaving of service passes
\* with commands (set angle, set inversion, mode and parameter changes).
C15_PositionWithinSweep ==
    \A s \in Servos :
       (pc = "loop" /\ configuration[s].active)
          => (0 <= run_state[s].position
                 /\ run_state[s].position <= configuration[s].sweep)

\* C20: under each strategy and from each logical state flip heads for the
\* opposite position: from OFF or MOVING_OFF the state afterwards is ON or
\* MOVING_ON, from ON or MOVING_ON it is OFF or MOVING_OFF.
C20_FlipHeadsOpposite ==
    (pc = "loop" /\ last_pass.servo # ERROR /\ last_pass.call = "set_flip")
       => IF last_pass.from \in {SERVO_OFF, SERVO_MOVING_OFF}
          THEN last_pass.to \in {SERVO_ON, SERVO_MOVING_ON}
          ELSE last_pass.to \in {SERVO_OFF, SERVO_MOVING_OFF}

\* The service pass of slot s read the active table: state 4 of signal_fsm
\* ran, or state 6 with a speed index other than 0.
TableWasRead(s) ==
    /\ pc = "loop"
    /\ s = this_servo
    /\ this_servo' # this_servo
    /\ configuration[s].active
    /\ run_state[s].strategy = SIGNAL_REALISM
    /\ run_state'[s].position # run_state[s].position
    /\ \/ run_state[s].index = SIGNAL_OFF
       \/ run_state[s].index = 6 /\ run_state[s].fsm_speed # 0

\* C21: every read of the active acceleration table in the drop and rebound
\* states uses an index within 0 .. acc_size - 1 of the table active at that
\* moment, also when the table is changed for one of another length while
\* a drop or rebound is in progress.
C21_TableIndexInRange ==
    [][\A s \in Servos :
          TableWasRead(s) =>
             /\ run_state[s].fsm_speed >= 0
             /\ run_state[s].fsm_speed < acc_size(run_state[s].acc)]_vars

\* C22: there are allowed settings with a small decay for which a signal
\* drop never settles: once state 5 has computed a rebound, the machine stays
\* in states 4, 5 and 6 and never returns to index 0, and each later run of
\* state 5 computes the same speed, greater than 1, as the run before it.
C22_SmallDecayNeverSettles ==
    \A s \in Servos :
       (pc = "loop" /\ configuration[s].active
                    /\ run_state[s].strategy = SIGNAL_REALISM
                    /\ configuration[s].var[V_DECAY] \in 1 .. SmallDecay
                    /\ motion[s].cycles >= 1)
          => /\ run_state[s].index \in {4, 5, 6}
             /\ run_state[s].state = SERVO_MOVING_OFF
             /\ motion[s].rebound > 1
             /\ motion[s].repeat

C22_Witness ==
    /\ pc = "loop"
    /\ configuration[0].var[V_DECAY] = 1
    /\ configuration[0].var[V_FRICTION] = FRICTION_MAX
    /\ motion[0].cycles = 2
    /\ motion[0].repeat
    /\ motion[0].rebound = 3
    /\ run_state[0].index = 6

\* C23: when the stored block cannot be read, or its checksum does not
\* match, setup resets every slot before apply_config: afterwards no slot is
\* active, no pin is assigned and apply_config has reported no error.
C23_BadBlockStartsEmpty ==
    (pc = "loop" /\ ~(eeprom.readable /\ eeprom.valid))
       => /\ \A s \in Servos : ~configuration[s].active
          /\ \A p \in Pins : assigned_pin[p] = ERROR
          /\ errors = 0

C23_Witness ==
    /\ pc = "loop"
    /\ eeprom.readable
    /\ ~eeprom.valid
    /\ eeprom.data[0].active
    /\ eeprom.data[1].active
    /\ ~configuration[0].active
    /\ ~configuration[1].active
    /\ errors = 0
    /\ console = <<"Arduino Servo Driver.", "EEPROM data invalid.">>

(***************************************************************************)
(* The value apply_config returns                                          *)
(***************************************************************************)
\* the kept slots that were stored with a mode apply_config does not know
BadModeKept ==
    {i \in Servos \ Dropped :
        Stored[i].active
        /\ Stored[i].mode \notin {NO_REALISM, POINT_REALISM, SIGNAL_REALISM}}

\* the kept slots that were stored with an acceleration tag it does not know
BadAccKept ==
    {i \in Servos \ Dropped :
        Stored[i].active
        /\ Stored[i].var[V_ACC] \notin
              {LINEAR_ACCEL, UPPER_ACCEL, LOWER_ACCEL, ARC_ACCEL}}

\* C24 (as stated): the value apply_config returns is the number of slots
\* it dropped from the loaded configuration.
C24_ReturnIsDropCount ==
    pc = "loop" => errors = Cardinality(Dropped)

\* C24 (amended): the value apply_config returns is the number of slots it
\* dropped, plus one for every kept slot stored with an unknown mode and one
\* for every kept slot stored with an unknown acceleration tag.
C24_ReturnCountsDropsAndResets ==
    pc = "loop" =>
        errors = Cardinality(Dropped) + Cardinality(BadModeKept)
                 + Cardinality(BadAccKept)

\* C24 witness: slot 0 was dropped, slot 1 was kept although its mode and
\* its acceleration tag were unknown, and apply_config returned three.
C24_Witness ==
    /\ pc = "loop"
    /\ Dropped = {0}
    /\ BadModeKept = {1}
    /\ BadAccKept = {1}
    /\ configuration[1].mode = NO_REALISM
    /\ configuration[1].var[V_ACC] = LINEAR_ACCEL
    /\ errors = 3

(***************************************************************************)
(* The ranges of the stored parameters                                     *)
(***************************************************************************)
Distance(a, b) == IF a < b THEN b - a ELSE a - b

\* the value of lo .. hi nearest to v
Nearest(v, lo, hi) ==
    CHOOSE b \in lo .. hi : \A x \in lo .. hi : Distance(v, b) <= Distance(v, x)

KnownAccel == {LINEAR_ACCEL, UPPER_ACCEL, LOWER_ACCEL, ARC_ACCEL}

\* the parameters of slot c are inside their ranges
InRange(c) ==
    /\ c.sweep \in 0 .. ARC_GRANULARITY
    /\ c.mode = POINT_REALISM => c.var[V_PAUSE] \in PAUSE_MIN .. PAUSE_MAX
    /\ c.mode = SIGNAL_REALISM =>
          /\ c.var[V_DECAY] \in DECAY_MIN .. DECAY_MAX
          /\ c.var[V_FRICTION] \in FRICTION_MIN .. FRICTION_MAX
          /\ c.var[V_SLACK] \in SLACK_MIN .. SLACK_MAX
          /\ c.var[V_STRETCH] \in STRETCH_MIN .. STRETCH_MAX
          /\ c.var[V_SPEED] \in SPEED_MIN .. SPEED_MAX
          /\ c.var[V_ACC] \in KnownAccel

\* slot c is the stored slot d, kept, with every value outside its range
\* replaced by the nearest bound
Clamped(c, d) ==
    /\ c.active
    /\ c.sweep = Nearest(d.sweep, 0, ARC_GRANULARITY)
    /\ d.mode = POINT_REALISM =>
          /\ c.mode = POINT_REALISM
          /\ c.var[V_PAUSE] = Nearest(d.var[V_PAUSE], PAUSE_MIN, PAUSE_MAX)
    /\ d.mode = SIGNAL_REALISM =>
          /\ c.mode = SIGNAL_REALISM
          /\ c.var[V_DECAY] = Nearest(d.var[V_DECAY], DECAY_MIN, DECAY_MAX)
          /\ c.var[V_FRICTION]
                = Nearest(d.var[V_FRICTION], FRICTION_MIN, FRICTION_MAX)
          /\ c.var[V_SLACK] = Nearest(d.var[V_SLACK], SLACK_MIN, SLACK_MAX)
          /\ c.var[V_STRETCH]
                = Nearest(d.var[V_STRETCH], STRETCH_MIN, STRETCH_MAX)
          /\ c.var[V_SPEED] = Nearest(d.var[V_SPEED], SPEED_MIN, SPEED_MAX)

\* C25: after apply_config and after every later command, the sweep of an
\* active slot lies in 0 .. ARC_GRANULARITY, the pause of a point slot in
\* its range, and the five numeric parameters of a signal slot in theirs,
\* with a known acceleration tag; and apply_config keeps a stored slot
\* whose pins are good, with every value outside its range replaced by the
\* nearest bound.
C25_ParametersStayInRange ==
    [][ /\ \A s \in Servos : configuration'[s].active => InRange(configuration'[s])
        /\ pc = "setup" =>
              \A s \in Servos : Stored[s].active =>
                  Clamped(configuration'[s], Stored[s]) ]_vars

\* C25 witness: slot 0 was stored as a signal servo with its decay above the
\* maximum and an unknown acceleration tag; apply_config kept it with decay
\* DECAY_MAX, and a later decay command with a value above the maximum has
\* been refused.
C25_Witness ==
    /\ pc = "loop"
    /\ Stored[0].mode = SIGNAL_REALISM
    /\ Stored[0].var[V_DECAY] > DECAY_MAX
    /\ Stored[0].var[V_ACC] \notin KnownAccel
    /\ configuration[0].active
    /\ configuration[0].mode = SIGNAL_REALISM
    /\ configuration[0].var[V_DECAY] = DECAY_MAX
    /\ configuration[0].var[V_ACC] = LINEAR_ACCEL
    /\ console = <<"Invalid pause interval.">>

(***************************************************************************)
(* Timing across the wrap of millis()                                      *)
(***************************************************************************)
\* the milliseconds from the time e to the time t of the 32 bit counter
\* (kept here in ULongBits bits), when t is less than half its range
\* after e
Since(t, e) == (t - e + Pow2(ULongBits)) % Pow2(ULongBits)

\* t is the time e or comes after it
Reached(t, e) == Since(t, e) < Pow2(ULongBits - 1)

\* the pass of slot s that this step makes called a handler that tests a
\* next_event set in this motion: continue_point_on, continue_point_off or
\* signal_fsm
TimedPass(s) ==
    /\ pc = "loop" /\ this_servo = s /\ this_servo' # s
    /\ configuration[s].active
    /\ motion[s].due
    /\ last_pass'.call # "none"
    /\ \/ /\ run_state[s].strategy = POINT_REALISM
          /\ \/ run_state[s].state = SERVO_MOVING_ON
                /\ last_pass'.call \in {"set_on", "run_state"}
             \/ run_state[s].state = SERVO_MOVING_OFF
                /\ last_pass'.call \in {"set_off", "run_state"}
       \/ /\ run_state[s].strategy = SIGNAL_REALISM
          /\ run_state[s].index # 0
          /\ \/ run_state[s].state = SERVO_MOVING_ON
                /\ last_pass'.call \in {"set_on", "run_state"}
             \/ run_state[s].state = SERVO_MOVING_OFF
                /\ last_pass'.call \in {"set_off", "run_state"}

\* C26: a step scheduled for next_event is not executed by a pass that
\* reads the clock before next_event, and is executed by the first pass that
\* reads it after next_event, also when the counter or next_event has
\* wrapped in between, for the point and for the signal strategy.
C26_TimingToleratesWrap ==
    [][ \A s \in Servos : TimedPass(s) =>
           /\ run_state'[s] # run_state[s]
                 => Reached(now', run_state[s].next_event)
           /\ (Reached(now', run_state[s].next_event)
               /\ now' # run_state[s].next_event)
                 => run_state'[s] # run_state[s] ]_vars

(***************************************************************************)
(* The rotation of the slots                                               *)
(***************************************************************************)
\* this step is a pass of loop() through service_servo
IsPass == this_servo' # this_servo

\* C27: every loop pass services one slot, the slots are serviced in the
\* order 0, 1, ..., AVAILABLE_SERVOS - 1, 0, ... starting with slot 0, so
\* that every slot is serviced once in AVAILABLE_SERVOS passes in a row, and
\* a console command handled between two passes does not move the rotation.
C27_FixedRotation ==
    [][ IF IsPass
        THEN /\ last_pass'.servo = this_servo
             /\ this_servo \in Servos
             /\ last_pass = NoPass => this_servo = 0
             /\ last_pass # NoPass =>
                   this_servo = (last_pass.servo + 1) % AVAILABLE_SERVOS
             /\ this_servo' = (this_servo + 1) % AVAILABLE_SERVOS
             /\ \A s \in Servos \ {this_servo} : run_state'[s] = run_state[s]
        ELSE last_pass' = last_pass ]_vars

\* C27 witness: the rotation has come back to slot 0 and serviced it after
\* a console command was handled.
C27_Witness ==
    /\ pc = "loop"
    /\ last_pass.servo = 0
    /\ this_servo = 1
    /\ now > MixSwitchUntil
    /\ console = <<"Done.">>
    /\ configuration[0].mode = SIGNAL_REALISM

(***************************************************************************)
(* The steps of point realism                                              *)
(***************************************************************************)
\* the pass of slot s that this step makes calls set_on, set_off or
\* run_state of the point strategy
PointCall(s) ==
    /\ IsPass /\ this_servo = s
    /\ configuration[s].active
    /\ run_state[s].strategy = POINT_REALISM
    /\ last_pass'.call # "none"

\* that call finds the point moving and carries the move on
PointCarriesOn(s) ==
    \/ run_state[s].state = SERVO_MOVING_ON
       /\ last_pass'.call \in {"set_on", "run_state"}
    \/ run_state[s].state = SERVO_MOVING_OFF
       /\ last_pass'.call \in {"set_off", "run_state"}

\* the position a point in the moving state r.state of slot c heads for
PointTarget(r, c) ==
    IF (r.state = SERVO_MOVING_ON) = c.inverted THEN 0 ELSE c.sweep

\* the pins apart from the LED read the same after the step
PinsKept == \A p \in Pins \ {LED_PIN} : pin_level'[p] = pin_level[p]

\* C28: a call of the on, off or tick handler of point realism that finds
\* the point moving changes nothing before the pause has elapsed; after it,
\* the call moves the position by one arc unit towards the target with one
\* pulse write, or, with the position at the target, sets the stable state
\* and raises the feedback pin of that state.  A call that makes the point
\* start to move lowers the feedback pin of the state it leaves.
C28_PointStepsOneUnit ==
    [][ \A s \in Servos : PointCall(s) =>
          LET r == run_state[s]
              r2 == run_state'[s]
              c == configuration[s]
              target == PointTarget(r, c)
          IN  /\ (PointCarriesOn(s) /\ now' < r.next_event)
                    => r2 = r /\ PinsKept
              /\ (PointCarriesOn(s) /\ now' > r.next_event) =>
                    IF r.position = target
                    THEN /\ r2.position = r.position
                         /\ r2.written = r.written
                         /\ r2.state = IF r.state = SERVO_MOVING_ON
                                       THEN SERVO_ON ELSE SERVO_OFF
                         /\ c.feedback =>
                               pin_level'[IF r.state = SERVO_MOVING_ON
                                          THEN c.output_on
                                          ELSE c.output_off] = "HIGH"
                    ELSE /\ r2.position
                              = r.position + (IF target > r.position THEN 1 ELSE -1)
                         /\ r2.written = ARC_TO_PULSE(r2.position)
                         /\ last_pass'.writes = 1
                         /\ r2.state = r.state
                         /\ PinsKept
              /\ (r2.state = SERVO_MOVING_ON /\ r.state # SERVO_MOVING_ON
                  /\ c.feedback) => pin_level'[c.output_off] = "LOW"
              /\ (r2.state = SERVO_MOVING_OFF /\ r.state # SERVO_MOVING_OFF
                  /\ c.feedback) => pin_level'[c.output_on] = "LOW" ]_vars

(***************************************************************************)
(* The steps of the signal drop                                            *)
(***************************************************************************)
\* C29: a step of state 4 of signal_fsm moves the position by one arc unit
\* towards the target, schedules the next step after the entry of the
\* gravity table at the speed index times the friction, divided by 100 and
\* rounded down, moves the speed index on by one up to the last entry of
\* the table, and goes to state 5 exactly when the position has become the
\* target.
C29_DropStep ==
    [][ \A s \in Servos :
          (/\ IsPass /\ this_servo = s
           /\ run_state[s].strategy = SIGNAL_REALISM
           /\ run_state[s].index = SIGNAL_OFF
           /\ last_pass'.call \in {"set_off", "run_state"}
           /\ run_state'[s] # run_state[s]) =>
          LET r == run_state[s]
              r2 == run_state'[s]
              c == configuration[s]
          IN  /\ Distance(r.fsm_target, r2.position)
                    = Distance(r.fsm_target, r.position) - 1
              /\ r2.written = ARC_TO_PULSE(r2.position)
              /\ r.fsm_speed < acc_size(r.acc) =>
                    r2.next_event
                       = ULongAdd(now', (acc_table(r.acc)[r.fsm_speed + 1]
                                         * c.var[V_FRICTION]) \div 100)
              /\ r2.fsm_speed = IF r.fsm_speed + 1 < acc_size(r.acc)
                                THEN r.fsm_speed + 1 ELSE acc_size(r.acc) - 1
              /\ r2.index = IF r2.position = r.fsm_target THEN 5 ELSE SIGNAL_OFF
      ]_vars

(***************************************************************************)
(* The bounce at the end of a signal rise                                  *)
(***************************************************************************)
\* the pass of slot s that this step makes carries a rise on and runs
\* state k of signal_fsm
RisePass(s, k) ==
    /\ IsPass /\ this_servo = s
    /\ run_state[s].strategy = SIGNAL_REALISM
    /\ run_state[s].index = k
    /\ last_pass'.call \in {"set_on", "run_state"}
    /\ run_state'[s] # run_state[s]

BouncePass(s) == RisePass(s, 3)

\* at the target the bounce limit moves one arc unit towards it, and
\* nowhere else does it move
LimitCloses(r, r2) ==
    /\ (r.position = r.fsm_target /\ r.fsm_limit # r.position) =>
          /\ Distance(r2.fsm_limit, r.fsm_target)
                = Distance(r.fsm_limit, r.fsm_target) - 1
          /\ r2.state = SERVO_MOVING_ON
          /\ r2.index = 3
    /\ r.position # r.fsm_target => r2.fsm_limit = r.fsm_limit

\* with the limit at the target the servo is ON, the ON feedback pin is
\* raised and the index is 0, and only then
Arrives(r, r2, c) ==
    /\ (r.position = r.fsm_target /\ r.fsm_limit = r.position) =>
          /\ r2.state = SERVO_ON
          /\ r2.index = 0
          /\ c.feedback => pin_level'[c.output_on] = "HIGH"
    /\ r2.index = 0 => (r.position = r.fsm_target /\ r.fsm_limit = r.position)

\* C30 (as stated): in state 3 of signal_fsm every bounce after the first
\* steps with half the delay of the bounce before it, the bounce limit
\* moves towards the target on every bounce until it is the target, and
\* then the state is ON, the ON feedback pin is raised and the index is 0.
C30_BounceHalvesEachTime ==
    [][ \A s \in Servos : BouncePass(s) =>
          LET r == run_state[s]
              r2 == run_state'[s]
          IN  /\ (/\ r.position = r.fsm_target
                  /\ r2.position # r.position
                  /\ motion[s].gap # -1)
                    => Since(r2.next_event, now') = motion[s].gap \div 2
              /\ LimitCloses(r, r2)
              /\ Arrives(r, r2, configuration[s]) ]_vars

\* C30 (amended): the delay between steps is halved once, when state 2
\* finds the position at the target and hands over to state 3; every step
\* of state 3 is scheduled after that same delay, which no bounce changes;
\* the bounce limit moves one arc unit towards the target each time the
\* position is back at the target, until it is the target, and then the
\* state is ON, the ON feedback pin is raised and the index is 0.
C30_BounceAtHalvedDelay ==
    [][ \A s \in Servos :
          LET r == run_state[s]
              r2 == run_state'[s]
          IN  /\ RisePass(s, 2) =>
                    IF r.position = r.fsm_target
                    THEN r2.index = 3 /\ r2.fsm_speed = r.fsm_speed \div 2
                    ELSE r2.index = 2 /\ r2.fsm_speed = r.fsm_speed
              /\ BouncePass(s) =>
                    /\ r2.fsm_speed = r.fsm_speed
                    /\ Since(r2.next_event, now') = r.fsm_speed
                    /\ motion[s].gap \in {-1, r.fsm_speed}
                    /\ LimitCloses(r, r2)
                    /\ Arrives(r, r2, configuration[s]) ]_vars

\* C30 witness: a signal servo with a stretch of three arc units has risen,
\* bounced with a delay of two milliseconds, and is ON at the end of its
\* sweep with the limit at the target and the ON feedback pin raised.
C30_Witness ==
    /\ pc = "loop"
    /\ configuration[0].mode = SIGNAL_REALISM
    /\ configuration[0].var[V_STRETCH] = 3
    /\ configuration[0].var[V_SPEED] = SlowRise
    /\ run_state[0].state = SERVO_ON
    /\ run_state[0].index = 0
    /\ run_state[0].position = configuration[0].sweep
    /\ run_state[0].fsm_limit = run_state[0].fsm_target
    /\ run_state[0].fsm_speed = 2
    /\ motion[0].gap = 2
    /\ pin_level[configuration[0].output_on] = "HIGH"

InMotion(s) == run_state[s].state \in {SERVO_MOVING_ON, SERVO_MOVING_OFF}

Unpaced(s) == run_state[s].strategy = NO_REALISM

\* A service pass of slot s that finds no countdown pending and the switch at
\* the level of the pass before, and leaves the whole runtime state of the
\* slot as it was: with the switch left alone every later pass does the same.
IdlePass(s) ==
    /\ IsPass /\ this_servo = s
    /\ configuration[s].active
    /\ run_state[s].button_count = 0
    /\ run_state'[s] = run_state[s]
    /\ history'[s].level = history[s].level

\* C31: a servo whose realism was disabled in the middle of a motion does not
\* stay in a moving state: with the switch left alone no service pass leaves
\* it unchanged in MOVING_ON or MOVING_OFF, whether the switch is a toggle or
\* momentary.
C31_DisabledMotionEnds ==
    [][~(Unpaced(0) /\ InMotion(0) /\ IdlePass(0))]_vars

\* the same, for a toggle switch only
C31_ToggleMotionEnds ==
    [][~(configuration[0].toggle /\ Unpaced(0) /\ InMotion(0) /\ IdlePass(0))]_vars

C31_Witness ==
    /\ configuration[0].active /\ ~configuration[0].toggle
    /\ Unpaced(0) /\ InMotion(0)
    /\ last_pass.servo = 0 /\ last_pass.call = "run_state"

(***************************************************************************)
(* The signal rise comes to an end                                         *)
(***************************************************************************)
\* the ON extreme of slot s
OnExtreme(s) == IF configuration[s].inverted THEN 0 ELSE configuration[s].sweep

\* C32: a signal ON motion started from stable OFF comes to stable ON: every
\* step of state 2 either finds the position at the target and hands over to
\* the bounce, or brings the position one arc unit nearer the target, and
\* the servo is stable ON only with index 0 and the position at the ON
\* extreme.
C32_RiseReachesOn ==
    [][ /\ RisePass(0, 2) =>
            IF run_state[0].position = run_state[0].fsm_target
            THEN run_state'[0].index = 3
            ELSE Distance(run_state'[0].fsm_target, run_state'[0].position)
                    < Distance(run_state[0].fsm_target, run_state[0].position)
        /\ (run_state'[0].strategy = SIGNAL_REALISM
            /\ run_state'[0].state = SERVO_ON) =>
               /\ run_state'[0].index = 0
               /\ run_state'[0].position = OnExtreme(0) ]_vars

\* the same for a slack that is not beyond the sweep
C32_RiseWithinSweep ==
    [][ configuration[0].var[V_SLACK] <= configuration[0].sweep =>
        /\ RisePass(0, 2) =>
            IF run_state[0].position = run_state[0].fsm_target
            THEN run_state'[0].index = 3
            ELSE Distance(run_state'[0].fsm_target, run_state'[0].position)
                    < Distance(run_state[0].fsm_target, run_state[0].position)
        /\ (run_state'[0].strategy = SIGNAL_REALISM
            /\ run_state'[0].state = SERVO_ON) =>
               /\ run_state'[0].index = 0
               /\ run_state'[0].position = OnExtreme(0) ]_vars

C32_Witness ==
    /\ configuration[0].var[V_SLACK] > configuration[0].sweep
    /\ run_state[0].index = 2
    /\ run_state[0].position > run_state[0].fsm_target + 1

C32_Arrived ==
    /\ run_state[0].strategy = SIGNAL_REALISM
    /\ run_state[0].state = SERVO_ON /\ run_state[0].index = 0
    /\ configuration[0].sweep = 2 /\ configuration[0].var[V_STRETCH] = 3
    /\ run_state[0].position = 2

(***************************************************************************)
(* The signal drop comes to rest                                           *)
(***************************************************************************)
\* the pass of slot s that this step makes carries a drop on and runs
\* state k of signal_fsm
DropPass(s, k) ==
    /\ IsPass /\ this_servo = s
    /\ run_state[s].strategy = SIGNAL_REALISM
    /\ run_state[s].index = k
    /\ last_pass'.call \in {"set_off", "run_state"}
    /\ run_state'[s] # run_state[s]

\* C33: with a decay of 34 or more and a sweep of 1 or more, a signal OFF
\* motion from stable ON at the opposite extreme, left alone, settles: each
\* speed state 5 computes is smaller than the one before, a speed of 1 or
\* less ends the motion at index 0 in state OFF with the position at the
\* target, the swings between two rebounds are finite (state 4 closes in on
\* the target, state 6 counts the speed down to 0), and the position stays
\* within 0 .. sweep.
C33_DropSettles ==
    [][ (configuration[0].var[V_DECAY] >= SettleDecay
         /\ configuration[0].sweep >= 1) =>
        LET r == run_state[0]
            r2 == run_state'[0]
        IN  /\ DropPass(0, 5) =>
                 /\ motion[0].cycles >= 1 => r2.fsm_speed < motion[0].rebound
                 /\ r2.fsm_speed < r.fsm_speed \/ r.fsm_speed = 0
                 /\ IF r2.fsm_speed <= 1
                    THEN /\ r2.index = 0 /\ r2.state = SERVO_OFF
                         /\ r2.position = r.fsm_target
                         /\ r2.position = configuration[0].sweep
                         /\ r2.written = ARC_TO_PULSE(r2.position)
                    ELSE r2.index = 6 /\ r2.state = SERVO_MOVING_OFF
            /\ DropPass(0, SIGNAL_OFF) =>
                 /\ Distance(r.fsm_target, r2.position)
                       = Distance(r.fsm_target, r.position) - 1
                 /\ r2.index = IF r2.position = r.fsm_target THEN 5 ELSE SIGNAL_OFF
            /\ DropPass(0, 6) =>
                 IF r.fsm_speed = 0 THEN r2.index = SIGNAL_OFF
                 ELSE r2.fsm_speed = r.fsm_speed - 1 /\ r2.index = 6
            /\ r2.position \in 0 .. configuration[0].sweep
            /\ r2.index \in {0, SIGNAL_I_OFF, SIGNAL_OFF, 5, 6} ]_vars

C33_Witness ==
    /\ configuration[0].var[V_DECAY] = SettleDecay
    /\ configuration[0].var[V_FRICTION] = FRICTION_MAX
    /\ configuration[0].sweep = 6
    /\ motion[0].cycles = 2
    /\ run_state[0].index = 0
    /\ run_state[0].state = SERVO_OFF
    /\ run_state[0].position = 6

(***************************************************************************)
(* A toggle switch held at one level brings a point servo to rest          *)
(***************************************************************************)
\* the OFF extreme of slot s
OffExtreme(s) == IF configuration[s].inverted THEN configuration[s].sweep ELSE 0

\* the feedback pins of slot s show on (or off) and nothing else
PinsShow(s, on) ==
    configuration'[s].feedback =>
       /\ pin_level'[configuration'[s].output_on] = (IF on THEN "HIGH" ELSE "LOW")
       /\ pin_level'[configuration'[s].output_off] = (IF on THEN "LOW" ELSE "HIGH")

\* a pass of slot s under point realism that made call and left the servo
\* in the stable state st, where later passes with the same call do nothing
PointRest(s, call, st) ==
    /\ IsPass /\ this_servo = s
    /\ configuration[s].active /\ configuration[s].toggle
    /\ run_state[s].strategy = POINT_REALISM
    /\ last_pass'.call = call
    /\ run_state'[s].state = st

\* C34: a point servo on a toggle switch held enabled comes to rest stable
\* ON with the position at the ON extreme, the ON pin HIGH and the OFF pin
\* LOW, and held disabled comes to rest stable OFF at the OFF extreme with
\* the pins the other way round: the passes that find it at rest find it so.
C34_HeldLevelRests ==
    [][ /\ PointRest(0, "set_on", SERVO_ON) =>
            run_state'[0].position = OnExtreme(0) /\ PinsShow(0, TRUE)
        /\ PointRest(0, "set_off", SERVO_OFF) =>
            run_state'[0].position = OffExtreme(0) /\ PinsShow(0, FALSE) ]_vars

C34_Witness ==
    /\ configuration[0].toggle /\ run_state[0].strategy = POINT_REALISM
    /\ last_pass.servo = 0 /\ last_pass.call = "set_on"
    /\ last_pass.from = SERVO_ON /\ run_state[0].state = SERVO_ON
    /\ run_state[0].position # OnExtreme(0)

(***************************************************************************)
(* The feedback pins                                                       *)
(***************************************************************************)
BothHigh(s) ==
    /\ pin_level[configuration[s].output_off] = "HIGH"
    /\ pin_level[configuration[s].output_on] = "HIGH"

\* C35: the two feedback pins of an active servo with feedback are never
\* both HIGH.
C35_FeedbackNeverBothHigh ==
    \A s \in Servos :
        (configuration[s].active /\ configuration[s].feedback) => ~BothHigh(s)

(***************************************************************************)
(* The position field and the pulse                                        *)
(***************************************************************************)
\* the pulse of slot s is the one of its position field; written is 0 from
\* the attach to the first write
AtPulse(s) ==
    IF run_state[s].written = 0 THEN run_state[s].position = 0
    ELSE run_state[s].written = ARC_TO_PULSE(run_state[s].position)

\* C36: the position field of an active servo is the arc position of the
\* last pulse width written to it, and 0 from the attach to the first write.
C36_PositionIsLastWrite ==
    \A s \in Servos :
        (pc = "loop" /\ configuration[s].active /\ run_state[s].attached)
            => AtPulse(s)

\* the same while the servo has never been driven without realism
C36_PacedPositionIsLastWrite ==
    \A s \in Servos :
        (pc = "loop" /\ configuration[s].active /\ run_state[s].attached
         /\ run_state[s].strategy # NO_REALISM)
            => AtPulse(s)

(***************************************************************************)
(* The configuration saved and read back                                   *)
(***************************************************************************)
\* setup() runs on a block that the W command wrote
Restored == pc = "setup" /\ pc' = "loop" /\ md.pc = "stored"

Defined(s) == pc = "loop" /\ ~configuration[s].active /\ configuration'[s].active

FreshRun(r) ==
    /\ r.state = SERVO_OFF
    /\ r.position = 0
    /\ r.index = 0
    /\ r.strategy = NO_REALISM
    /\ r.button_count = 0
    /\ ~r.human_input

\* C38: right after a successful define of a slot, also one that was used
\* and deleted before, its runtime state is fresh: state OFF, position 0,
\* index 0, the no-realism strategy bound, no countdown pending and the
\* human-input latch clear.
C38_DefinedSlotIsFresh ==
    [][\A s \in Servos : Defined(s) => FreshRun(run_state'[s])]_vars

\* what create_servo does set
C38_DefinedSlotSwitchIsFresh ==
    [][\A s \in Servos :
          Defined(s) => /\ run_state'[s].button_count = 0
                        /\ ~run_state'[s].button_state
                        /\ ~run_state'[s].human_input
                        /\ run_state'[s].attached
                        /\ run_state'[s].acc = LINEAR_ACCEL
                        /\ configuration'[s].mode = NO_REALISM
                        /\ configuration'[s].sweep = 0]_vars

C38_Witness ==
    /\ configuration[0].active /\ configuration[0].mode = NO_REALISM
    /\ configuration[0].sweep = 0
    /\ run_state[0].strategy = SIGNAL_REALISM
    /\ run_state[0].state = SERVO_MOVING_OFF
    /\ run_state[0].position > 0

(***************************************************************************)
(* The version 1 sketch acts once for each settled level                   *)
(***************************************************************************)
\* C39: in the version 1 sketch set_servo_on and set_servo_off are called
\* only on the pass that takes the countdown from 1 to 0, at most once for
\* each settled level; that pass makes a toggle switch set the servo to the
\* level of the switch, a pressed button set the latch and a released button
\* flip the servo if the latch was set; the passes that follow at the same
\* level change nothing.
C39_ActsOnceWhenCountdownEnds ==
    [][(IsPass /\ this_servo = 0) =>
         LET r == run_state[0]
             r2 == run_state'[0]
             c == configuration[0]
             enabled == last_pass'.level = "LOW"
             acted == last_pass'.call \in Requests
             kept == enabled = r.button_state
             on == IF enabled THEN SERVO_ON ELSE SERVO_OFF
             other == IF r.state = SERVO_ON THEN SERVO_OFF ELSE SERVO_ON
         IN  /\ acted => (kept /\ r.button_count = 1)
             /\ history'[0].requests <= 1
             /\ (kept /\ r.button_count = 1) =>
                   /\ r2.button_count = 0
                   /\ IF c.toggle
                      THEN /\ r2.state = on
                           /\ acted <=> (r.state # on)
                           /\ r2.human_input = r.human_input
                      ELSE IF enabled
                      THEN r2.human_input /\ r2.state = r.state /\ ~acted
                      ELSE /\ ~r2.human_input
                           /\ acted <=> r.human_input
                           /\ r2.state = (IF r.human_input THEN other ELSE r.state)
                   /\ acted => /\ r2.written = (IF r2.state = SERVO_ON
                                                THEN c.sweep ELSE 0)
                               /\ pin_level'[c.output_on]
                                     = (IF r2.state = SERVO_ON THEN "HIGH" ELSE "LOW")
                               /\ pin_level'[c.output_off]
                                     = (IF r2.state = SERVO_ON THEN "LOW" ELSE "HIGH")
             /\ (kept /\ r.button_count = 0) =>
                   /\ r2 = r /\ pin_level' = pin_level /\ ~acted ]_vars

\* an action has been performed for the closed switch, and the passes since
\* have left the servo alone
C39_Witness ==
    /\ history[0].level = "LOW" /\ history[0].streak = StreakCap
    /\ history[0].requests = 1
    /\ run_state[0].state = SERVO_ON /\ run_state[0].button_count = 0
    /\ last_pass.servo = 0 /\ last_pass.call = "none" /\ last_pass.same

\* a button released: the flip was made once
C39_FlipWitness ==
    /\ ~configuration[0].toggle
    /\ history[0].level = "HIGH" /\ history[0].streak = StreakCap
    /\ history[0].requests = 1 /\ history[0].changed
    /\ run_state[0].button_count = 0 /\ ~run_state[0].human_input

(***************************************************************************)
(* mul_div with a divisor of at most half the range                        *)
(***************************************************************************)
\* the call returned is one with 0 < c <= 2^(W-1) whose exact quotient fits
SmallDivisor ==
    /\ md.pc = "return"
    /\ md.c > 0 /\ md.c <= Pow2(md.w - 1)
    /\ ExactQuotient < Pow2(md.w)

\* C40: for a, b, c of width W with 0 < c <= 2^(W-1) and floor(a*b/c) below
\* 2^W, mul_div returns floor(a*b/c); the main loop never subtracts the
\* divisor (e stays 0), no left shift of the running remainder st drops a
\* set bit, and the roll-out loop makes exactly W iterations.
C40_SmallDivisorExact ==
    SmallDivisor =>
        /\ md.loc.d = ExactQuotient
        /\ md.loc.e = 0
        /\ ~md.loc.lost
        /\ md.loc.n = md.w

C40_Witness ==
    /\ SmallDivisor
    /\ md.w = 8 /\ md.a = 255 /\ md.b = 128 /\ md.c = 128
    /\ md.loc.d = 255

====
